---- MODULE Spec2Model ----
(***************************************************************************)
(* Ledger / authorization engine of the card issuer (DB-backed repository).*)
(*                                                                         *)
(* The committed database state is (accounts, auths, txns).  Every         *)
(* repository operation runs in one database transaction on its own        *)
(* connection (a member of Procs).  PostgreSQL READ COMMITTED semantics    *)
(* are modelled as follows:                                                *)
(*   - a statement that must wait for a lock is simply not enabled until   *)
(*     the lock is free;                                                   *)
(*   - rows inserted or locked by a transaction stay private to it (the    *)
(*     tx record) until Commit; an early return runs the deferred          *)
(*     tx.Rollback(), which drops them;                                    *)
(*   - the statements from the UPDATE of issuer.accounts to Commit form    *)
(*     one step: the account row lock taken by the UPDATE is the last lock *)
(*     the transaction acquires, nothing it wrote is visible before the    *)
(*     commit, and a concurrent UPDATE of the same row waits for it;       *)
(*   - a violated CHECK constraint makes the statement fail, the function  *)
(*     returns that error and the transaction is rolled back.              *)
(***************************************************************************)
EXTENDS Integers, Sequences, FiniteSets, TLC

\* ------------------------------------------------------------------ bounds
InitBalance == 2      \* opening available_balance of every account
MaxAmount   == 2      \* largest amount a request carries
MaxAuths    == 2      \* cap on the rows of issuer.auths
MaxTime     == 1      \* the clock now() runs over 0..MaxTime
MaxPans     == 2      \* how many distinct PANs the generator can draw

\* ------------------------------------------------------- domains and inputs
Procs    == {"p1", "p2"}            \* concurrent database connections
Accounts == {"acc1", "acc2"}
Cards    == {"card1", "card2"}

\* cards.account_id: the account AuthorizeRequest passes as card.AccountID.
\* Both cards were issued on acc1; acc2 holds no card.
CardAccount(c) == IF c \in {"card1", "card2"} THEN "acc1" ELSE "acc2"

\* AuthorizationRequest.STAN is a *int; NoStan is the nil pointer
NoStan == -1
Stans  == {NoStan, 7}

\* hold_expires_at is a nullable timestamptz; NoExpiry is SQL NULL
NoExpiry == -1

AuthIDs == 1 .. MaxAuths

ApprovalCodeApproved          == "ApprovalCodeApproved"
ApprovalCodeInsufficientFunds == "ApprovalCodeInsufficientFunds"
ApprovalCodeInvalidCard       == "ApprovalCodeInvalidCard"

ErrNone              == "nil"
ErrInsufficientFunds == "ErrInsufficientFunds"
ErrDb                == "db error"
ErrNoRows            == "sql: no rows in result set"
ErrAuthNotFound      == "auth not found"
ErrBadStatus         == "bad auth status"
ErrCurrencyMismatch  == "currency mismatch"
ErrInvalidCapture    == "invalid capture amount"
ErrNotFound          == "not found"
ErrConflict          == "conflict"
ErrGeneratePan       == "generate unique pan"
ErrRegeneratePan     == "regenerate unique pan"
ErrCreatingCard      == "creating card"
ErrRetriesExhausted  == "could not create unique card after retries"

\* IssueCard: for attempt := 0; attempt < 5; attempt++
MaxCreateAttempts == 5
\* IssueCard passes maxRetries = 10 to GenerateUniquePAN
PanMaxRetries == 10

\* the card numbers GeneratePANWithLength can draw, already normalized;
\* HashPANHMAC is injective on them, so pan_hash is identified with the PAN
Pans == 1 .. MaxPans
NoPan == 0

\* strings.ToUpper on the currency codes used here
ToUpper(s) == CASE s = "usd" -> "USD"
                [] s = "eur" -> "EUR"
                [] OTHER     -> s

VARIABLES
    accounts,   \* issuer.accounts: account_id -> [available_balance, hold_balance]
    auths,      \* issuer.auths: sequence of committed rows, auth_id = index
    txns,       \* issuer.transactions: sequence of committed rows
    now,        \* the database clock now()
    tx,         \* per connection: the open transaction and its locals
    last,       \* what the call that returned most recently was given and
                \* returned; NoCall once a later call has begun a transaction
    db,         \* Repository.db != nil: the repository is DB-backed
    cards,      \* the stored cards: issuer.cards, or Repository.Cards
    panIndex,   \* Repository.panIndex: the numbers of the in-memory cards
    issue,      \* per caller: the position of its IssueCard call
    fn          \* the call of a library function (cardgen, security, expiry)
                \* under way: its arguments, its locals and what it returned

\* the card store and its callers
cardVars == <<db, cards, panIndex, issue>>

\* the ledger, the card store and their callers
storeVars == <<accounts, auths, txns, now, tx, last, db, cards, panIndex, issue>>

vars == <<accounts, auths, txns, now, tx, last, db, cards, panIndex, issue, fn>>

\* ------------------------------------------------------------ SQL schema
\* Variant: issuer.accounts without its CHECK constraints.
AccountsCheckAbsent(acc) == TRUE

\* check (available_balance >= 0), check (hold_balance >= 0)
AccountsCheck(acc) == acc.available_balance >= 0 /\ acc.hold_balance >= 0

\* issuer.auths: amount bigint not null check (amount > 0)
AuthsCheck(row) == row.amount > 0

\* issuer.transactions: amount bigint not null check (amount <> 0)
TxnsCheck(row) == row.amount # 0

\* ------------------------------------------------------- connection state
Idle == [pc |-> "idle", card |-> "", stan |-> NoStan, amount |-> 0, cur |-> "",
         authc |-> "", auth |-> 0, ids |-> {}, waited |-> FALSE]

NoCall == [op |-> "none", card |-> "", stan |-> NoStan, amount |-> 0,
           cur |-> "", given |-> "", auth |-> 0, err |-> ErrNone, dup |-> FALSE,
           appr |-> "", authc |-> "", n |-> 0, waited |-> FALSE,
           pan |-> NoPan, calls |-> 0]

\* no library function is being called
NoFn == [op |-> "none"]

\* A caller outside IssueCard.  attempt is the loop variable of IssueCard,
\* draws the loop variable i of GenerateUniquePAN, calls the number of
\* CreateCard calls the IssueCard call has made.
IssueIdle == [pc |-> "idle", pan |-> NoPan, attempt |-> 0, draws |-> 0,
              calls |-> 0]

\* The record of a returned call: its arguments and what it returned.
Ret(op, err) == [NoCall EXCEPT !.op = op, !.err = err]

\* Variant: the selects take no row locks.
LockedByOtherNone(p) == {}

\* auth_ids locked (FOR UPDATE) by a transaction other than p
LockedByOther(p) == UNION {tx[q].ids : q \in Procs \ {p}}

\* q holds an uncommitted insert of the unique key (card, stan)
HasPendingKey(q, card, stan) ==
    /\ tx[q].pc = "cah_update"
    /\ tx[q].card = card
    /\ tx[q].stan = stan

\* Variant: the insert-first statement does not wait for an uncommitted
\* row with the same key.
KeyPendingElsewhereIgnored(p, card, stan) == FALSE

KeyPendingElsewhere(p, card, stan) ==
    \E q \in Procs \ {p} : HasPendingKey(q, card, stan)

\* Variant: no unique index, so no insert ever conflicts.
RowsWithKeyNoIndex(card, stan) == {}

\* committed rows carrying the unique key (card, stan)
RowsWithKey(card, stan) ==
    {i \in DOMAIN auths : auths[i].card = card /\ auths[i].stan = stan}

\* issuer.accounts.currency, written once by CreateAccount (upper-cased) and
\* by no other statement: the accounts of the model are USD and EUR accounts.
AccountCurrency(a) == IF a = "acc1" THEN "USD" ELSE "EUR"

\* Variant: the authorization row is stamped with the currency of the
\* account instead of the currency of the request.
NewAuthRowAccountCurrency(card, amount, cur, authc, stan) ==
    [account |-> CardAccount(card), card |-> card, amount |-> amount,
     currency |-> AccountCurrency(CardAccount(card)), status |-> "AUTHORIZED",
     approval_code |-> ApprovalCodeApproved, authorization_code |-> authc,
     stan |-> stan, hold_expires_at |-> NoExpiry]

NewAuthRow(card, amount, cur, authc, stan) ==
    [account |-> CardAccount(card), card |-> card, amount |-> amount,
     currency |-> ToUpper(cur), status |-> "AUTHORIZED",
     approval_code |-> ApprovalCodeApproved, authorization_code |-> authc,
     stan |-> stan, hold_expires_at |-> NoExpiry]

Init ==
    /\ accounts = [a \in Accounts |->
                      [available_balance |-> InitBalance, hold_balance |-> 0]]
    /\ auths = << >>
    /\ txns = << >>
    /\ now = 0
    /\ tx = [p \in Procs |-> Idle]
    /\ last = NoCall
    /\ db = TRUE
    /\ cards = << >>
    /\ panIndex = {}
    /\ issue = [p \in Procs |-> IssueIdle]
    /\ fn = NoFn

\* ------------------------------------------------------ CreateAuthAndHold
\* Variant: the UPDATE without its balance condition.
HoldGuardAbsent(acc, amount) == TRUE

\* WHERE account_id=$1 AND available_balance >= $2
HoldGuard(acc, amount) == acc.available_balance >= amount

\* Variant: the UPDATE debits available_balance without crediting hold_balance.
HoldAppliedDebitOnly(acc, amount) == [acc EXCEPT !.available_balance = @ - amount]

\* SET available_balance = available_balance - $2, hold_balance = hold_balance + $2
HoldApplied(acc, amount) ==
    [acc EXCEPT !.available_balance = @ - amount, !.hold_balance = @ + amount]

CAHRet(card, stan, amount, cur, authc, waited) ==
    [Ret("CreateAuthAndHold", ErrNone) EXCEPT
        !.card = card, !.stan = stan, !.amount = amount, !.cur = cur,
        !.given = authc, !.waited = waited]

\* existedAmount != amount || ToUpper(existedCurr) != ToUpper(currency)
ReplayMismatch(existing, amount, cur) ==
    existing.amount # amount \/ ToUpper(existing.currency) # ToUpper(cur)

\* The error returned for a replay whose amount or currency differs.
ReplayMismatchErr == ErrInsufficientFunds

\* Variant: a replay answers with the codes of the call, not the stored ones.
ReplayResultFreshCodes(existing, card, stan, amount, cur, authc, waited) ==
    LET r == CAHRet(card, stan, amount, cur, authc, waited)
    IN  IF ReplayMismatch(existing, amount, cur)
        THEN [r EXCEPT !.err = ReplayMismatchErr]
        ELSE [r EXCEPT !.dup = TRUE, !.appr = existing.approval_code, !.authc = authc]

\* Variant: a replay is answered only while the stored authorization is
\* still open; a finalized one is refused.
ReplayResultOpenOnly(existing, card, stan, amount, cur, authc, waited) ==
    LET r == CAHRet(card, stan, amount, cur, authc, waited)
    IN  IF ReplayMismatch(existing, amount, cur)
        THEN [r EXCEPT !.err = ReplayMismatchErr]
        ELSE IF existing.status # "AUTHORIZED"
        THEN [r EXCEPT !.err = ErrBadStatus]
        ELSE [r EXCEPT !.dup = TRUE, !.appr = existing.approval_code,
                       !.authc = existing.authorization_code]

\* The replay branch: the insert was suppressed by the unique index, the
\* existing row is fetched and compared with the request.
ReplayResult(existing, card, stan, amount, cur, authc, waited) ==
    LET r == CAHRet(card, stan, amount, cur, authc, waited)
    IN  IF ReplayMismatch(existing, amount, cur)
        THEN [r EXCEPT !.err = ReplayMismatchErr]
        ELSE [r EXCEPT !.dup = TRUE, !.appr = existing.approval_code,
                       !.authc = existing.authorization_code]

\* Variant: a declined call commits instead of rolling back, so the row of
\* the insert-first statement stays.
HoldAndCommitNoRollback(row, cur, inserted, waited) ==
    LET a   == row.account
        upd == HoldApplied(accounts[a], row.amount)
        r   == CAHRet(row.card, row.stan, row.amount, cur, row.authorization_code, waited)
    IN  IF ~HoldGuard(accounts[a], row.amount)
        THEN /\ last' = [r EXCEPT !.err = ErrInsufficientFunds]
             /\ auths' = IF inserted THEN Append(auths, row) ELSE auths
             /\ UNCHANGED accounts
        ELSE IF ~AccountsCheck(upd) \/ (~inserted /\ ~AuthsCheck(row))
        THEN /\ last' = [r EXCEPT !.err = ErrDb]
             /\ UNCHANGED <<accounts, auths>>
        ELSE /\ accounts' = [accounts EXCEPT ![a] = upd]
             /\ auths' = Append(auths, row)
             /\ last' = [r EXCEPT !.appr = row.approval_code,
                                  !.authc = row.authorization_code,
                                  !.auth = Len(auths) + 1]

\* The conditional UPDATE of issuer.accounts, the insert of the row when no
\* STAN was given, and Commit: what is committed and what is returned.
\* `row` is the AUTHORIZED row of this call, `inserted` tells whether the
\* insert-first statement has already inserted it.
HoldAndCommit(row, cur, inserted, waited) ==
    LET a   == row.account
        upd == HoldApplied(accounts[a], row.amount)
        r   == CAHRet(row.card, row.stan, row.amount, cur, row.authorization_code, waited)
    IN  IF ~HoldGuard(accounts[a], row.amount)
        THEN /\ last' = [r EXCEPT !.err = ErrInsufficientFunds]
             /\ UNCHANGED <<accounts, auths>>
        ELSE IF ~AccountsCheck(upd) \/ (~inserted /\ ~AuthsCheck(row))
        THEN /\ last' = [r EXCEPT !.err = ErrDb]
             /\ UNCHANGED <<accounts, auths>>
        ELSE /\ accounts' = [accounts EXCEPT ![a] = upd]
             /\ auths' = Append(auths, row)
             /\ last' = [r EXCEPT !.appr = row.approval_code,
                                  !.authc = row.authorization_code,
                                  !.auth = Len(auths) + 1]

\* stan == nil: no insert-first; UPDATE, INSERT and Commit.
CAH_NoStan(p, card, amount, cur, authc) ==
    /\ tx[p].pc = "idle"
    /\ Len(auths) < MaxAuths
    /\ HoldAndCommit(NewAuthRow(card, amount, cur, authc, NoStan), cur, FALSE, FALSE)
    /\ UNCHANGED <<txns, now, tx>>
    /\ UNCHANGED <<cardVars, fn>>

\* stan != nil and another open transaction holds an uncommitted row with the
\* same (card_id, stan): the INSERT ... ON CONFLICT waits for that transaction.
CAH_Wait(p, card, stan, amount, cur, authc) ==
    /\ tx[p].pc = "idle"
    /\ stan # NoStan
    /\ AuthsCheck(NewAuthRow(card, amount, cur, authc, stan))
    /\ KeyPendingElsewhere(p, card, stan)
    /\ tx' = [tx EXCEPT ![p] = [Idle EXCEPT !.pc = "cah_wait", !.card = card,
                                   !.stan = stan, !.amount = amount,
                                   !.cur = cur, !.authc = authc]]
    /\ last' = NoCall
    /\ UNCHANGED <<accounts, auths, txns, now>>
    /\ UNCHANGED <<cardVars, fn>>

\* The insert-first statement of a call with a STAN, run by a call that
\* starts now (waited = FALSE) or by one that waited for the key.  The CHECK
\* constraint is evaluated before the unique index is consulted.
InsertFirst(p, card, stan, amount, cur, authc, waited) ==
    /\ stan # NoStan
    /\ LET row == NewAuthRow(card, amount, cur, authc, stan)
       IN  IF ~AuthsCheck(row)
           THEN \* the INSERT fails, Scan's error is dropped, the SELECT runs
                \* in the aborted transaction and returns its error
                /\ last' = [CAHRet(card, stan, amount, cur, authc, waited) EXCEPT !.err = ErrDb]
                /\ tx' = [tx EXCEPT ![p] = Idle]
           ELSE /\ ~KeyPendingElsewhere(p, card, stan)
                /\ IF RowsWithKey(card, stan) # {}
                   THEN \* ON CONFLICT DO NOTHING: insertedID == ""
                        /\ last' = ReplayResult(auths[CHOOSE i \in RowsWithKey(card, stan) : TRUE],
                                                card, stan, amount, cur, authc, waited)
                        /\ tx' = [tx EXCEPT ![p] = Idle]
                   ELSE /\ Len(auths) < MaxAuths
                        /\ tx' = [tx EXCEPT ![p] = [Idle EXCEPT !.pc = "cah_update",
                                      !.card = card, !.stan = stan, !.amount = amount,
                                      !.cur = cur, !.authc = authc,
                                      !.waited = waited]]
                        /\ last' = NoCall
    /\ UNCHANGED <<accounts, auths, txns, now>>

CAH_Insert(p, card, stan, amount, cur, authc) ==
    /\ tx[p].pc = "idle"
    /\ InsertFirst(p, card, stan, amount, cur, authc, FALSE)
    /\ UNCHANGED <<cardVars, fn>>

CAH_InsertAfterWait(p) ==
    /\ tx[p].pc = "cah_wait"
    /\ InsertFirst(p, tx[p].card, tx[p].stan, tx[p].amount, tx[p].cur, tx[p].authc, TRUE)
    /\ UNCHANGED <<cardVars, fn>>

\* "On fresh insert with STAN, proceed to adjust balances", then Commit.
CAH_Update(p) ==
    /\ tx[p].pc = "cah_update"
    /\ HoldAndCommit(NewAuthRow(tx[p].card, tx[p].amount, tx[p].cur, tx[p].authc, tx[p].stan),
                     tx[p].cur, TRUE, tx[p].waited)
    /\ tx' = [tx EXCEPT ![p] = Idle]
    /\ UNCHANGED <<txns, now>>
    /\ UNCHANGED <<cardVars, fn>>

\* FindCardForAuthorization for a PAN and expiry no stored card has:
\* sql.ErrNoRows becomes ErrNotFound.
FindCard_NotFound(p) ==
    /\ tx[p].pc = "idle"
    /\ last' = Ret("FindCardForAuthorization", ErrNotFound)
    /\ UNCHANGED <<accounts, auths, txns, now, tx>>
    /\ UNCHANGED <<cardVars, fn>>

\* FindCardForAuthorization when the query itself fails.
FindCard_Error(p) ==
    /\ tx[p].pc = "idle"
    /\ last' = Ret("FindCardForAuthorization", ErrDb)
    /\ UNCHANGED <<accounts, auths, txns, now, tx>>
    /\ UNCHANGED <<cardVars, fn>>

\* Variant: a card that is not found is reported as an error.
AuthorizeResponseNotFoundIsError(r) ==
    IF r.err = ErrNone
    THEN [ApprovalCode |-> r.appr, AuthorizationCode |-> r.authc, err |-> ErrNone]
    ELSE IF r.op # "FindCardForAuthorization" /\ r.err = ErrInsufficientFunds
    THEN [ApprovalCode |-> ApprovalCodeInsufficientFunds, AuthorizationCode |-> "",
          err |-> ErrNone]
    ELSE [ApprovalCode |-> "", AuthorizationCode |-> "", err |-> "finding card"]

\* Service.AuthorizeRequest (DB-backed path): the response and error built
\* from what its last repository call, FindCardForAuthorization or
\* CreateAuthAndHold, returned.
AuthorizeResponse(r) ==
    IF r.op = "FindCardForAuthorization"
    THEN IF r.err = ErrNotFound
         THEN [ApprovalCode |-> ApprovalCodeInvalidCard, AuthorizationCode |-> "",
               err |-> ErrNone]
         ELSE [ApprovalCode |-> "", AuthorizationCode |-> "", err |-> "finding card"]
    ELSE IF r.err = ErrNone
    THEN [ApprovalCode |-> r.appr, AuthorizationCode |-> r.authc, err |-> ErrNone]
    ELSE IF r.err = ErrInsufficientFunds
    THEN [ApprovalCode |-> ApprovalCodeInsufficientFunds, AuthorizationCode |-> "",
          err |-> ErrNone]
    ELSE [ApprovalCode |-> "", AuthorizationCode |-> "", err |-> "auth hold"]

\* ------------------------------------------------------------ CaptureAuth
\* Variant: the requested amount is used as given, also when it is <= 0.
CaptureAmountAsGiven(amount, authAmount) == amount

\* if amount <= 0 { amount = authAmount }
CaptureAmount(amount, authAmount) == IF amount <= 0 THEN authAmount ELSE amount

\* Variant: every capture closes the authorization.
CaptureStatusAlwaysCaptured(amount, authAmount) == "CAPTURED"

\* newStatus := "CAPTURED"; if amount < authAmount { newStatus = "AUTHORIZED" }
CaptureStatus(amount, authAmount) ==
    IF amount < authAmount THEN "AUTHORIZED" ELSE "CAPTURED"

CapRet(op, id, card, stan, amount, cur, err) ==
    [Ret(op, err) EXCEPT !.auth = id, !.card = card, !.stan = stan,
                         !.amount = amount, !.cur = cur]

\* Variant: CaptureAuth without its currency comparison.
CaptureCheckNoCurrency(id, amount, cur) ==
    IF id \notin DOMAIN auths THEN ErrAuthNotFound
    ELSE IF auths[id].status # "AUTHORIZED" THEN ErrBadStatus
    ELSE IF CaptureAmount(amount, auths[id].amount) > auths[id].amount
         THEN ErrInvalidCapture
    ELSE ErrNone

\* Variant: CaptureAuth without its status check.
CaptureCheckNoStatus(id, amount, cur) ==
    IF id \notin DOMAIN auths THEN ErrAuthNotFound
    ELSE IF ToUpper(auths[id].currency) # ToUpper(cur) THEN ErrCurrencyMismatch
    ELSE IF CaptureAmount(amount, auths[id].amount) > auths[id].amount
         THEN ErrInvalidCapture
    ELSE ErrNone

\* The checks CaptureAuth makes on the row it read.
CaptureCheck(id, amount, cur) ==
    IF id \notin DOMAIN auths THEN ErrAuthNotFound
    ELSE IF auths[id].status # "AUTHORIZED" THEN ErrBadStatus
    ELSE IF ToUpper(auths[id].currency) # ToUpper(cur) THEN ErrCurrencyMismatch
    ELSE IF CaptureAmount(amount, auths[id].amount) > auths[id].amount
         THEN ErrInvalidCapture
    ELSE ErrNone

\* select ... for update, and the checks on the row read
CaptureLock(p, op, id, card, stan, amount, cur) ==
    /\ id \notin LockedByOther(p)
    /\ LET err == CaptureCheck(id, amount, cur)
       IN  IF err # ErrNone
           THEN /\ last' = [CapRet(op, id, card, stan, amount, cur, err)
                                EXCEPT !.waited = tx[p].waited]
                /\ tx' = [tx EXCEPT ![p] = Idle]
           ELSE /\ tx' = [tx EXCEPT ![p] = [Idle EXCEPT !.pc = "cap_apply",
                              !.auth = id, !.card = card, !.stan = stan,
                              !.amount = amount, !.cur = cur, !.ids = {id},
                              !.waited = tx[p].waited]]
                /\ last' = NoCall
    /\ UNCHANGED <<accounts, auths, txns, now>>

Cap_Lock(p, id, amount, cur) ==
    /\ tx[p].pc = "idle"
    /\ CaptureLock(p, "CaptureAuth", id, "", NoStan, amount, cur)
    /\ UNCHANGED <<cardVars, fn>>

\* update accounts, insert the CAPTURED transaction, update the auth, Commit
Cap_Apply(p) ==
    /\ tx[p].pc = "cap_apply"
    /\ LET id   == tx[p].auth
           a    == auths[id]
           amt  == CaptureAmount(tx[p].amount, a.amount)
           upd  == [accounts[a.account] EXCEPT !.hold_balance = @ - amt]
           trow == [account |-> a.account, card |-> a.card, auth |-> id,
                    amount |-> amt, currency |-> ToUpper(tx[p].cur),
                    status |-> "CAPTURED"]
           op   == IF tx[p].card = "" THEN "CaptureAuth" ELSE "CaptureByStan"
           ret(err) == [CapRet(op, id, tx[p].card, tx[p].stan, tx[p].amount,
                               tx[p].cur, err) EXCEPT !.waited = tx[p].waited]
       IN  IF ~AccountsCheck(upd) \/ ~TxnsCheck(trow)
           THEN /\ last' = ret(ErrDb)
                /\ UNCHANGED <<accounts, auths, txns>>
           ELSE /\ accounts' = [accounts EXCEPT ![a.account] = upd]
                /\ txns' = Append(txns, trow)
                /\ auths' = [auths EXCEPT ![id].status = CaptureStatus(amt, a.amount)]
                /\ last' = ret(ErrNone)
    /\ tx' = [tx EXCEPT ![p] = Idle]
    /\ UNCHANGED now
    /\ UNCHANGED <<cardVars, fn>>

\* The select ... for update of CaptureAuth finds the row locked by another
\* transaction and waits for it.
Cap_Wait(p, id, amount, cur) ==
    /\ tx[p].pc = "idle"
    /\ id \in LockedByOther(p)
    /\ tx' = [tx EXCEPT ![p] = [Idle EXCEPT !.pc = "cap_wait", !.auth = id,
                                   !.amount = amount, !.cur = cur,
                                   !.waited = TRUE]]
    /\ last' = NoCall
    /\ UNCHANGED <<accounts, auths, txns, now>>
    /\ UNCHANGED <<cardVars, fn>>

\* The lock is granted once the other transaction has ended.
Cap_LockAfterWait(p) ==
    /\ tx[p].pc = "cap_wait"
    /\ CaptureLock(p, "CaptureAuth", tx[p].auth, "", NoStan, tx[p].amount, tx[p].cur)
    /\ UNCHANGED <<cardVars, fn>>

\* Service.CaptureByStan: FindAuthByCardStan and the status check; the card
\* is one FindCardForAuthorization resolves.
CapByStan_Find(p, card, stan, amount, cur) ==
    /\ tx[p].pc = "idle"
    /\ stan # NoStan
    /\ LET rows == RowsWithKey(card, stan)
           id   == CHOOSE i \in rows : TRUE
           err  == IF rows = {} THEN ErrNoRows
                   ELSE IF auths[id].status # "AUTHORIZED" THEN ErrBadStatus
                   ELSE ErrNone
       IN  IF err # ErrNone
           THEN /\ last' = CapRet("CaptureByStan", 0, card, stan, amount, cur, err)
                /\ UNCHANGED tx
           ELSE /\ tx' = [tx EXCEPT ![p] = [Idle EXCEPT !.pc = "cap_found",
                              !.auth = id, !.card = card, !.stan = stan,
                              !.amount = amount, !.cur = cur]]
                /\ last' = NoCall
    /\ UNCHANGED <<accounts, auths, txns, now>>
    /\ UNCHANGED <<cardVars, fn>>

\* return i.repo.CaptureAuth(ctx, authID, amount, currency)
CapByStan_Lock(p) ==
    /\ tx[p].pc = "cap_found"
    /\ CaptureLock(p, "CaptureByStan", tx[p].auth, tx[p].card, tx[p].stan,
                   tx[p].amount, tx[p].cur)
    /\ UNCHANGED <<cardVars, fn>>

\* ------------------------------------------------------------ ReverseAuth
RevRet(op, id, card, stan, err) ==
    [Ret(op, err) EXCEPT !.auth = id, !.card = card, !.stan = stan]

\* The account row after ReverseAuth's UPDATE of issuer.accounts.
ReverseApplied(acc, amount) == [acc EXCEPT !.hold_balance = @ - amount]

\* Variant: ReverseAuth without its status check.
ReverseCheckNoStatus(id) == IF id \notin DOMAIN auths THEN ErrNoRows ELSE ErrNone

\* Scan of the row (sql.ErrNoRows when there is none), then
\* if status != "AUTHORIZED" { return fmt.Errorf("bad auth status: %s", status) }
ReverseCheck(id) ==
    IF id \notin DOMAIN auths THEN ErrNoRows
    ELSE IF auths[id].status # "AUTHORIZED" THEN ErrBadStatus
    ELSE ErrNone

\* select account_id, amount, status ... for update, and the status check
ReverseLock(p, op, id, card, stan) ==
    /\ id \notin LockedByOther(p)
    /\ LET err == ReverseCheck(id)
       IN  IF err # ErrNone
           THEN /\ last' = [RevRet(op, id, card, stan, err)
                                EXCEPT !.waited = tx[p].waited]
                /\ tx' = [tx EXCEPT ![p] = Idle]
           ELSE /\ tx' = [tx EXCEPT ![p] = [Idle EXCEPT !.pc = "rev_apply",
                              !.auth = id, !.card = card, !.stan = stan,
                              !.ids = {id}, !.waited = tx[p].waited]]
                /\ last' = NoCall
    /\ UNCHANGED <<accounts, auths, txns, now>>

Rev_Lock(p, id) ==
    /\ tx[p].pc = "idle"
    /\ ReverseLock(p, "ReverseAuth", id, "", NoStan)
    /\ UNCHANGED <<cardVars, fn>>

\* The select ... for update of ReverseAuth finds the row locked by another
\* transaction and waits for it.
Rev_Wait(p, id) ==
    /\ tx[p].pc = "idle"
    /\ id \in LockedByOther(p)
    /\ tx' = [tx EXCEPT ![p] = [Idle EXCEPT !.pc = "rev_wait", !.auth = id,
                                   !.waited = TRUE]]
    /\ last' = NoCall
    /\ UNCHANGED <<accounts, auths, txns, now>>
    /\ UNCHANGED <<cardVars, fn>>

\* The lock is granted once the other transaction has ended.
Rev_LockAfterWait(p) ==
    /\ tx[p].pc = "rev_wait"
    /\ ReverseLock(p, "ReverseAuth", tx[p].auth, "", NoStan)
    /\ UNCHANGED <<cardVars, fn>>

\* update accounts, update the auth to REVERSED, Commit
Rev_Apply(p) ==
    /\ tx[p].pc = "rev_apply"
    /\ LET id  == tx[p].auth
           a   == auths[id]
           upd == ReverseApplied(accounts[a.account], a.amount)
           op  == IF tx[p].card = "" THEN "ReverseAuth" ELSE "ReverseByStan"
       IN  IF ~AccountsCheck(upd)
           THEN /\ last' = [RevRet(op, id, tx[p].card, tx[p].stan, ErrDb)
                                EXCEPT !.waited = tx[p].waited]
                /\ UNCHANGED <<accounts, auths>>
           ELSE /\ accounts' = [accounts EXCEPT ![a.account] = upd]
                /\ auths' = [auths EXCEPT ![id].status = "REVERSED"]
                /\ last' = [RevRet(op, id, tx[p].card, tx[p].stan, ErrNone)
                                EXCEPT !.waited = tx[p].waited]
    /\ tx' = [tx EXCEPT ![p] = Idle]
    /\ UNCHANGED <<txns, now>>
    /\ UNCHANGED <<cardVars, fn>>

\* Service.ReverseByStan: FindAuthByCardStan and the status check; the card
\* is one FindCardForAuthorization resolves.
RevByStan_Find(p, card, stan) ==
    /\ tx[p].pc = "idle"
    /\ stan # NoStan
    /\ LET rows == RowsWithKey(card, stan)
           id   == CHOOSE i \in rows : TRUE
           err  == IF rows = {} THEN ErrNoRows
                   ELSE IF auths[id].status # "AUTHORIZED" THEN ErrBadStatus
                   ELSE ErrNone
       IN  IF err # ErrNone
           THEN /\ last' = RevRet("ReverseByStan", 0, card, stan, err)
                /\ UNCHANGED tx
           ELSE /\ tx' = [tx EXCEPT ![p] = [Idle EXCEPT !.pc = "rev_found",
                              !.auth = id, !.card = card, !.stan = stan]]
                /\ last' = NoCall
    /\ UNCHANGED <<accounts, auths, txns, now>>
    /\ UNCHANGED <<cardVars, fn>>

\* return i.repo.ReverseAuth(ctx, authID)
RevByStan_Lock(p) ==
    /\ tx[p].pc = "rev_found"
    /\ ReverseLock(p, "ReverseByStan", tx[p].auth, tx[p].card, tx[p].stan)
    /\ UNCHANGED <<cardVars, fn>>

\* ---------------------------------------------------- ReleaseExpiredHolds
RECURSIVE SumAmounts(_)
SumAmounts(ids) ==
    IF ids = {} THEN 0
    ELSE LET i == CHOOSE j \in ids : TRUE
         IN  auths[i].amount + SumAmounts(ids \ {i})

\* Variant: the select also returns rows another transaction has locked.
EligibleIgnoringLocks(p) ==
    {i \in DOMAIN auths :
        /\ auths[i].status = "AUTHORIZED"
        /\ auths[i].hold_expires_at # NoExpiry
        /\ auths[i].hold_expires_at <= now}

\* Variant: only rows whose expiry lies strictly in the past are selected.
EligibleStrictlyPast(p) ==
    {i \in DOMAIN auths :
        /\ auths[i].status = "AUTHORIZED"
        /\ auths[i].hold_expires_at # NoExpiry
        /\ auths[i].hold_expires_at < now} \ LockedByOther(p)

\* where status='AUTHORIZED' and hold_expires_at <= now() ... skip locked
Eligible(p) ==
    {i \in DOMAIN auths :
        /\ auths[i].status = "AUTHORIZED"
        /\ auths[i].hold_expires_at # NoExpiry
        /\ auths[i].hold_expires_at <= now} \ LockedByOther(p)

Min(a, b) == IF a <= b THEN a ELSE b

\* Variant: the select without its limit.
SelectionsNoLimit(p, batch) == {Eligible(p)}

\* order by hold_expires_at asc limit $1: any prefix of an oldest-first order
Selections(p, batch) ==
    {sel \in SUBSET Eligible(p) :
        /\ Cardinality(sel) = Min(batch, Cardinality(Eligible(p)))
        /\ \A i \in sel, j \in Eligible(p) \ sel :
              auths[i].hold_expires_at <= auths[j].hold_expires_at}

SwpRet(batch, n, err) == [Ret("ReleaseExpiredHolds", err) EXCEPT !.amount = batch, !.n = n]

\* the select ... for update skip locked; with an empty list, Commit and return 0
Swp_Select(p, batch) ==
    /\ tx[p].pc = "idle"
    /\ \E sel \in Selections(p, batch) :
          IF sel = {}
          THEN /\ last' = SwpRet(batch, 0, ErrNone)
               /\ UNCHANGED tx
          ELSE /\ tx' = [tx EXCEPT ![p] = [Idle EXCEPT !.pc = "swp_apply",
                             !.amount = batch, !.ids = sel]]
               /\ last' = NoCall
    /\ UNCHANGED <<accounts, auths, txns, now>>
    /\ UNCHANGED <<cardVars, fn>>

\* agg[it.AccountID] += it.Amount; one UPDATE per account; mark REVERSED; Commit
Swp_Apply(p) ==
    /\ tx[p].pc = "swp_apply"
    /\ LET sel == tx[p].ids
           agg(a) == SumAmounts({i \in sel : auths[i].account = a})
           upd == [a \in Accounts |->
                     IF \E i \in sel : auths[i].account = a
                     THEN [accounts[a] EXCEPT !.hold_balance = @ - agg(a)]
                     ELSE accounts[a]]
       IN  IF \E a \in Accounts : ~AccountsCheck(upd[a])
           THEN /\ last' = SwpRet(tx[p].amount, 0, ErrDb)
                /\ UNCHANGED <<accounts, auths>>
           ELSE /\ accounts' = upd
                /\ auths' = [i \in DOMAIN auths |->
                               IF i \in sel THEN [auths[i] EXCEPT !.status = "REVERSED"]
                               ELSE auths[i]]
                /\ last' = SwpRet(tx[p].amount, Cardinality(sel), ErrNone)
    /\ tx' = [tx EXCEPT ![p] = Idle]
    /\ UNCHANGED <<txns, now>>
    /\ UNCHANGED <<cardVars, fn>>

\* ------------------------------------------------------------ environment
\* now() advances
Tick ==
    /\ now < MaxTime
    /\ now' = now + 1
    /\ UNCHANGED <<accounts, auths, txns, tx, last>>
    /\ UNCHANGED <<cardVars, fn>>

\* hold_expires_at is written by no statement of the repository; a writer
\* outside it stamps an open hold with an expiry
SetHoldExpiry(i, t) ==
    /\ i \in DOMAIN auths
    /\ auths[i].status = "AUTHORIZED"
    /\ auths[i].hold_expires_at = NoExpiry
    /\ i \notin LockedByOther("")
    /\ auths' = [auths EXCEPT ![i].hold_expires_at = t]
    /\ UNCHANGED <<accounts, txns, now, tx, last>>
    /\ UNCHANGED <<cardVars, fn>>

\* -------------------------------------------------------------- card store
\* the numbers of the stored cards
StoredPans == {cards[i].number : i \in DOMAIN cards}

\* Variant: issuer.cards without uq_cards_pan_hash, panIndex never consulted.
PanTakenNever(pan) == FALSE

\* CreateCard finds the number taken: the panIndex lookup in memory, the
\* unique constraint on pan_hash in the database
PanTaken(pan) ==
    IF db THEN \E i \in DOMAIN cards : cards[i].number = pan
    ELSE pan \in panIndex

\* what one CreateCard call can return; the INSERT can also fail for a
\* reason other than the unique constraint
CreateCardOutcomes(pan) ==
    {IF PanTaken(pan) THEN ErrConflict ELSE ErrNone} \cup (IF db THEN {ErrDb} ELSE {})

\* the store after a CreateCard call that returned err
CreateCardStore(pan, account, err) ==
    /\ cards' = IF err = ErrNone
                THEN Append(cards, [number |-> pan, account |-> account])
                ELSE cards
    /\ panIndex' = IF err = ErrNone /\ ~db THEN panIndex \cup {pan} ELSE panIndex

\* Repository.CreateCard called on its own
CreateCard(p, pan) ==
    /\ issue[p].pc = "idle"
    /\ \E err \in CreateCardOutcomes(pan) :
          /\ CreateCardStore(pan, "acc1", err)
          /\ last' = [Ret("CreateCard", err) EXCEPT !.pan = pan]
    /\ UNCHANGED <<accounts, auths, txns, now, tx, db, issue, fn>>

\* Repository.ExistsCardNumber reads only the in-memory index
ExistsCardNumber(pan) == pan \in panIndex

\* Variant: the create loop of IssueCard has no bound.
AttemptsLeftAlways(attempt) == TRUE

\* the loop condition of IssueCard
AttemptsLeft(attempt) == attempt < MaxCreateAttempts

\* what IssueCard returns
IssueRet(r, pan, err) ==
    [Ret("IssueCard", err) EXCEPT !.pan = pan, !.calls = r.calls]

\* One draw of GenerateUniquePAN inside IssueCard: the first call of the
\* function, or the call made after a conflict.  An unused number ends the
\* call; the loop of IssueCard then creates the card or, out of attempts,
\* gives up.
Issue_Draw(p, pan) ==
    /\ issue[p].pc \in {"idle", "generate"}
    /\ LET r    == IF issue[p].pc = "idle"
                   THEN [IssueIdle EXCEPT !.pc = "generate"]
                   ELSE issue[p]
           gerr == IF r.calls = 0 THEN ErrGeneratePan ELSE ErrRegeneratePan
       IN  IF ~ExistsCardNumber(pan)
           THEN IF AttemptsLeft(r.attempt)
                THEN /\ issue' = [issue EXCEPT ![p] =
                                     [r EXCEPT !.pc = "create", !.pan = pan, !.draws = 0]]
                     /\ last' = IF issue[p].pc = "idle" THEN NoCall ELSE last
                ELSE /\ issue' = [issue EXCEPT ![p] = IssueIdle]
                     /\ last' = IssueRet(r, NoPan, ErrRetriesExhausted)
           ELSE IF r.draws < PanMaxRetries
                THEN /\ issue' = [issue EXCEPT ![p] = [r EXCEPT !.draws = r.draws + 1]]
                     /\ last' = IF issue[p].pc = "idle" THEN NoCall ELSE last
                ELSE /\ issue' = [issue EXCEPT ![p] = IssueIdle]
                     /\ last' = IssueRet(r, NoPan, gerr)
    /\ UNCHANGED <<accounts, auths, txns, now, tx, db, cards, panIndex, fn>>

\* The CreateCard call in the loop of IssueCard and the branch on its result.
Issue_Create(p) ==
    /\ issue[p].pc = "create"
    /\ LET r == [issue[p] EXCEPT !.calls = issue[p].calls + 1]
       IN  \E err \in CreateCardOutcomes(r.pan) :
              /\ CreateCardStore(r.pan, "acc1", err)
              /\ CASE err = ErrNone ->
                        /\ issue' = [issue EXCEPT ![p] = IssueIdle]
                        /\ last' = IssueRet(r, r.pan, ErrNone)
                   [] err = ErrConflict ->
                        /\ issue' = [issue EXCEPT ![p] =
                                        [r EXCEPT !.pc = "generate", !.pan = NoPan,
                                                  !.attempt = r.attempt + 1]]
                        /\ UNCHANGED last
                   [] OTHER ->
                        /\ issue' = [issue EXCEPT ![p] = IssueIdle]
                        /\ last' = IssueRet(r, NoPan, ErrCreatingCard)
    /\ UNCHANGED <<accounts, auths, txns, now, tx, db, fn>>

\* ------------------------------------------------------- specifications
\* Spec: one connection runs the repository operations and the by-STAN
\* reversal one after another.  No statement of the repository writes
\* hold_expires_at, so ReleaseExpiredHolds finds nothing to release.
ReqAmounts    == 0 .. MaxAmount
ReqCurrencies == {"usd"}
AuthCodes     == {"100001"}      \* draws of generateAuthorizationCode()
BatchSizes    == {1, 2}

Next ==
    \/ \E card \in Cards, amount \in ReqAmounts, cur \in ReqCurrencies, authc \in AuthCodes :
          \/ CAH_NoStan("p1", card, amount, cur, authc)
          \/ \E stan \in Stans \ {NoStan} : CAH_Insert("p1", card, stan, amount, cur, authc)
    \/ CAH_Update("p1")
    \/ \E id \in AuthIDs, amount \in ReqAmounts, cur \in ReqCurrencies :
          Cap_Lock("p1", id, amount, cur)
    \/ Cap_Apply("p1")
    \/ \E id \in AuthIDs : Rev_Lock("p1", id)
    \/ \E card \in Cards, stan \in Stans : RevByStan_Find("p1", card, stan)
    \/ RevByStan_Lock("p1")
    \/ Rev_Apply("p1")
    \/ \E batch \in BatchSizes : Swp_Select("p1", batch)

Spec == Init /\ [][Next]_vars

\* SpecReplay: one connection, every request carries the same (card, STAN);
\* amounts, currencies (in either case) and authorization codes vary.
ReplayCurrencies == {"USD", "usd", "eur"}
ReplayCodes      == {"100001", "100002"}

NextReplay ==
    \/ \E amount \in ReqAmounts, cur \in ReplayCurrencies, authc \in ReplayCodes :
          CAH_Insert("p1", "card1", 7, amount, cur, authc)
    \/ CAH_Update("p1")
    \/ \E id \in AuthIDs, amount \in ReqAmounts, cur \in ReplayCurrencies :
          Cap_Lock("p1", id, amount, cur)
    \/ Cap_Apply("p1")
    \/ \E id \in AuthIDs : Rev_Lock("p1", id)
    \/ Rev_Apply("p1")
    \/ \E amount \in ReqAmounts, cur \in ReplayCurrencies :
          CapByStan_Find("p1", "card1", 7, amount, cur)
    \/ CapByStan_Lock("p1")
    \/ RevByStan_Find("p1", "card1", 7)
    \/ RevByStan_Lock("p1")

SpecReplay == Init /\ [][NextReplay]_vars

\* SpecRace: two connections authorize concurrently against acc1, with and
\* without a STAN.
RaceStans == {7, 8}

NextRace ==
    \E p \in Procs :
       \/ \E amount \in 1 .. MaxAmount, authc \in ReplayCodes :
             \/ CAH_NoStan(p, "card1", amount, "usd", authc)
             \/ \E stan \in RaceStans :
                   \/ CAH_Wait(p, "card1", stan, amount, "usd", authc)
                   \/ CAH_Insert(p, "card1", stan, amount, "usd", authc)
       \/ CAH_InsertAfterWait(p)
       \/ CAH_Update(p)

SpecRace == Init /\ [][NextRace]_vars

\* SpecSweep: two connections hold, capture, reverse and sweep concurrently
\* while the clock advances and open holds are stamped with an expiry.
NextSweep ==
    \/ \E amount \in 1 .. MaxAmount : CAH_NoStan("p1", "card1", amount, "usd", "100001")
    \/ \E id \in AuthIDs, amount \in {0, 1} : Cap_Lock("p1", id, amount, "usd")
    \/ Cap_Apply("p1")
    \/ \E p \in Procs :
          \/ \E id \in AuthIDs : Rev_Lock(p, id)
          \/ Rev_Apply(p)
          \/ \E batch \in BatchSizes : Swp_Select(p, batch)
          \/ Swp_Apply(p)
    \/ Tick
    \/ \E i \in AuthIDs, t \in 0 .. MaxTime : SetHoldExpiry(i, t)

SpecSweep == Init /\ [][NextSweep]_vars

\* SpecAuthorize: one connection serves AuthorizeRequest calls: the card
\* lookup misses or fails, or a hold is attempted with or without a STAN.
NextAuthorize ==
    \/ FindCard_NotFound("p1")
    \/ FindCard_Error("p1")
    \/ \E amount \in ReqAmounts :
          \/ CAH_NoStan("p1", "card1", amount, "usd", "100001")
          \/ \E stan \in RaceStans : CAH_Insert("p1", "card1", stan, amount, "usd", "100001")
    \/ CAH_Update("p1")

SpecAuthorize == Init /\ [][NextAuthorize]_vars

\* SpecFinalize: two connections finalize the holds the first one places,
\* by full captures (amount 0 or the full amount) and reversals; a call that
\* finds its row locked waits for the lock.
NextFinalize ==
    \/ \E amount \in 1 .. MaxAmount : CAH_NoStan("p1", "card1", amount, "usd", "100001")
    \/ \E p \in Procs :
          \/ \E id \in AuthIDs, amount \in ReqAmounts :
                /\ id \in DOMAIN auths => amount \in {0, auths[id].amount}
                /\ \/ Cap_Lock(p, id, amount, "usd")
                   \/ Cap_Wait(p, id, amount, "usd")
          \/ Cap_LockAfterWait(p)
          \/ Cap_Apply(p)
          \/ \E id \in AuthIDs : Rev_Lock(p, id) \/ Rev_Wait(p, id)
          \/ Rev_LockAfterWait(p)
          \/ Rev_Apply(p)

SpecFinalize == Init /\ [][NextFinalize]_vars

\* SpecIssue: two callers issue cards and call CreateCard concurrently on a
\* repository that is either DB-backed or in-memory.
InitIssue ==
    /\ accounts = [a \in Accounts |->
                      [available_balance |-> InitBalance, hold_balance |-> 0]]
    /\ auths = << >>
    /\ txns = << >>
    /\ now = 0
    /\ tx = [p \in Procs |-> Idle]
    /\ last = NoCall
    /\ db \in BOOLEAN
    /\ cards = << >>
    /\ panIndex = {}
    /\ issue = [p \in Procs |-> IssueIdle]
    /\ fn = NoFn

NextIssue ==
    \E p \in Procs :
       \/ \E pan \in Pans : Issue_Draw(p, pan)
       \/ Issue_Create(p)
       \/ \E pan \in Pans : CreateCard(p, pan)

SpecIssue == InitIssue /\ [][NextIssue]_vars

\* SpecIssueFair: the same calls, where a caller inside IssueCard keeps
\* running: the goroutine executing the call is not suspended forever.
IssueStep(p) == (\E pan \in Pans : Issue_Draw(p, pan)) \/ Issue_Create(p)

SpecIssueFair ==
    SpecIssue /\ \A p \in Procs : WF_vars(issue[p].pc # "idle" /\ IssueStep(p))

\* ------------------------------------------------------------- properties
\* A call of `op` returns in this step.
Returned(op) == last' # last /\ last'.op = op

\* The database is left as it was.
NothingPersisted == accounts' = accounts /\ auths' = auths /\ txns' = txns

\* The request just returned repeats the unique key of a committed row.
IsReplay == last'.stan # NoStan /\ RowsWithKey(last'.card, last'.stan) # {}

\* C1: in every reachable state every account has available_balance >= 0
\* and hold_balance >= 0, whatever holds, captures, reversals and sweeps ran,
\* succeeded or failed, and however they interleaved.
C1_BalancesNonNegative ==
    \A a \in Accounts :
        accounts[a].available_balance >= 0 /\ accounts[a].hold_balance >= 0

\* C1 witness: after a partial capture a sweep asked for more than is held and
\* was refused by the CHECK constraint.
C1_Witness ==
    /\ last.op = "ReleaseExpiredHolds"
    /\ last.err = ErrDb
    /\ Len(txns) >= 1
    /\ \E i \in DOMAIN auths :
          auths[i].status = "AUTHORIZED" /\ auths[i].amount > accounts[auths[i].account].hold_balance

\* C2: a CreateAuthAndHold that creates the hold returns the codes stored in
\* its row, and a later call with the same (card_id, STAN, amount, currency)
\* returns those stored codes with duplicate=true, not its own fresh codes,
\* adds no row and changes no balance.
C2_IdempotentReplay ==
    [][Returned("CreateAuthAndHold") =>
        /\ (last'.err = ErrNone /\ ~last'.dup) =>
              /\ Len(auths') = Len(auths) + 1
              /\ auths'[last'.auth].authorization_code = last'.authc
              /\ auths'[last'.auth].approval_code = last'.appr
        /\ \A i \in RowsWithKey(last'.card, last'.stan) :
              (/\ last'.stan # NoStan
               /\ auths[i].amount = last'.amount
               /\ auths[i].currency = ToUpper(last'.cur)) =>
                 /\ last'.err = ErrNone
                 /\ last'.dup
                 /\ last'.authc = auths[i].authorization_code
                 /\ last'.appr = auths[i].approval_code
                 /\ NothingPersisted
                 /\ Cardinality(RowsWithKey(last'.card, last'.stan)) = 1
    ]_vars

\* C2 witness: a replay was given a fresh code of its own and returned the
\* stored one; the single row is the hold placed once.
C2_Witness ==
    /\ last.op = "CreateAuthAndHold"
    /\ last.err = ErrNone
    /\ last.dup
    /\ last.given # last.authc
    /\ \E i \in RowsWithKey(last.card, last.stan) :
          /\ auths[i].authorization_code = last.authc
          /\ auths[i].amount = last.amount
          /\ accounts[auths[i].account].available_balance = InitBalance - last.amount

\* C3: a CreateAuthAndHold that reuses an existing (card_id, STAN) with a
\* different amount or currency fails with an error kind other than
\* insufficient funds, AuthorizeRequest does not answer it with the
\* insufficient-funds decline, and nothing is persisted.
C3_MismatchDistinctFromInsufficientFunds ==
    [][(Returned("CreateAuthAndHold") /\ IsReplay
          /\ \E i \in RowsWithKey(last'.card, last'.stan) :
                auths[i].amount # last'.amount \/ auths[i].currency # ToUpper(last'.cur)) =>
        /\ last'.err # ErrNone
        /\ last'.err # ErrInsufficientFunds
        /\ AuthorizeResponse(last').ApprovalCode # ApprovalCodeInsufficientFunds
        /\ NothingPersisted
    ]_vars

\* The last call was declined by the conditional UPDATE (not by a replay
\* whose amount or currency differs).
FundsDecline ==
    /\ last.op = "CreateAuthAndHold"
    /\ last.err = ErrInsufficientFunds
    /\ (last.stan = NoStan \/ RowsWithKey(last.card, last.stan) = {})

\* C4: available_balance never goes negative; an attempt that reaches its
\* conditional update is approved exactly when available_balance >= amount at
\* that moment and is otherwise declined with insufficient funds; once an
\* attempt of amount a is declined among attempts that all asked for a,
\* exactly InitBalance \div a of them hold funds.
C4_ExactlyEnoughSucceed ==
    /\ [](/\ C1_BalancesNonNegative
          /\ (FundsDecline /\ \A i \in DOMAIN auths : auths[i].amount = last.amount)
             => Len(auths) = InitBalance \div last.amount)
    /\ [][(Returned("CreateAuthAndHold") /\ ~IsReplay /\ last'.amount >= 1) =>
            LET a == CardAccount(last'.card)
            IN  IF accounts[a].available_balance >= last'.amount
                THEN /\ last'.err = ErrNone
                     /\ accounts'[a].available_balance
                          = accounts[a].available_balance - last'.amount
                ELSE /\ last'.err = ErrInsufficientFunds
                     /\ NothingPersisted
       ]_vars

\* C4 witness: an attempt was declined for lack of funds while another
\* attempt's transaction is open, and the holds placed exhaust the balance.
C4_Witness ==
    /\ FundsDecline
    /\ \E p \in Procs : tx[p].pc = "cah_update"
    /\ Len(auths) >= 1
    /\ accounts[CardAccount(last.card)].available_balance < last.amount

\* C5: a successful non-duplicate CreateAuthAndHold takes exactly amount from
\* the account's available_balance and adds exactly amount to its
\* hold_balance, appends one AUTHORIZED row for the amount, and leaves every
\* other account, authorization and transaction as it was.
C5_HoldFrame ==
    [][(Returned("CreateAuthAndHold") /\ last'.err = ErrNone /\ ~last'.dup) =>
        LET a == CardAccount(last'.card)
        IN  /\ accounts'[a].available_balance
                 = accounts[a].available_balance - last'.amount
            /\ accounts'[a].hold_balance = accounts[a].hold_balance + last'.amount
            /\ accounts'[a].available_balance + accounts'[a].hold_balance
                 = accounts[a].available_balance + accounts[a].hold_balance
            /\ \A b \in Accounts \ {a} : accounts'[b] = accounts[b]
            /\ Len(auths') = Len(auths) + 1
            /\ SubSeq(auths', 1, Len(auths)) = auths
            /\ auths'[Len(auths')].status = "AUTHORIZED"
            /\ auths'[Len(auths')].amount = last'.amount
            /\ auths'[Len(auths')].card = last'.card
            /\ auths'[Len(auths')].account = a
            /\ txns' = txns
    ]_vars

\* C5 witness: a hold was placed on an account that already carries one.
C5_Witness ==
    /\ last.op = "CreateAuthAndHold"
    /\ last.err = ErrNone
    /\ ~last.dup
    /\ last.auth = Len(auths)
    /\ Len(auths) >= 2
    /\ accounts[CardAccount(last.card)].hold_balance >= last.amount

\* C6: no two rows of issuer.auths carry the same (card_id, STAN) with a
\* STAN present.
C6_UniqueCardStan ==
    \A i, j \in DOMAIN auths :
        (i # j /\ auths[i].stan # NoStan /\ auths[i].card = auths[j].card)
            => auths[i].stan # auths[j].stan

\* C6 witness: a second insert of a stored (card_id, STAN) was suppressed,
\* and the same card also has a row without a STAN.
C6_Witness ==
    /\ last.op = "CreateAuthAndHold"
    /\ last.dup
    /\ Cardinality(RowsWithKey(last.card, last.stan)) = 1
    /\ \E i \in DOMAIN auths : auths[i].card = last.card /\ auths[i].stan = NoStan

\* C7: an insert-first never proceeds while another transaction holds an
\* uncommitted row with the same (card_id, STAN); the call that waited for
\* the winner's commit returns no error but the winner's stored codes with
\* duplicate=true, and persists nothing, so the balance moves once.
C7_LoserReplays ==
    /\ [](\A p, q \in Procs :
            (p # q /\ tx[p].pc = "cah_update" /\ tx[q].pc = "cah_update")
                => (tx[p].card # tx[q].card \/ tx[p].stan # tx[q].stan))
    /\ [](C6_UniqueCardStan)
    /\ [][(Returned("CreateAuthAndHold") /\ last'.waited /\ IsReplay) =>
            \A i \in RowsWithKey(last'.card, last'.stan) :
                (auths[i].amount = last'.amount /\ auths[i].currency = ToUpper(last'.cur)) =>
                    /\ last'.err = ErrNone
                    /\ last'.dup
                    /\ last'.authc = auths[i].authorization_code
                    /\ NothingPersisted
                    /\ accounts[auths[i].account].available_balance + auths[i].amount
                         <= InitBalance
       ]_vars

\* C7 witness: the call that waited behind the winner's open transaction
\* returned the winner's code, not the one it was given.
C7_Witness ==
    /\ last.op = "CreateAuthAndHold"
    /\ last.waited
    /\ last.err = ErrNone
    /\ last.dup
    /\ last.given # last.authc
    /\ Len(auths) = 1
    /\ accounts[CardAccount(last.card)].available_balance = InitBalance - last.amount

\* C8 (as stated): every CreateAuthAndHold whose amount exceeds the account's
\* available_balance returns insufficient funds and persists nothing.
C8_Original ==
    [][(Returned("CreateAuthAndHold")
          /\ last'.amount > accounts[CardAccount(last'.card)].available_balance) =>
        /\ last'.err = ErrInsufficientFunds
        /\ NothingPersisted
    ]_vars

\* C8 (amended): a CreateAuthAndHold that is not a replay of a stored
\* (card_id, STAN) and whose amount exceeds the account's available_balance
\* returns insufficient funds and persists nothing: balances are unchanged
\* and no authorization row remains, the provisionally inserted one included.
C8_InsufficientFundsPersistsNothing ==
    [][(Returned("CreateAuthAndHold") /\ ~IsReplay
          /\ last'.amount > accounts[CardAccount(last'.card)].available_balance) =>
        /\ last'.err = ErrInsufficientFunds
        /\ NothingPersisted
        /\ \A p \in Procs : tx'[p].pc # "cah_update"
        /\ last'.stan # NoStan =>
              \A i \in DOMAIN auths' :
                  auths'[i].card # last'.card \/ auths'[i].stan # last'.stan
    ]_vars

\* C8 witness: a request with a STAN was declined for lack of funds and its
\* provisional row is gone.
C8_Witness ==
    /\ last.op = "CreateAuthAndHold"
    /\ last.err = ErrInsufficientFunds
    /\ last.stan # NoStan
    /\ RowsWithKey(last.card, last.stan) = {}
    /\ last.amount > accounts[CardAccount(last.card)].available_balance
    /\ tx["p1"].pc = "idle"

\* C9: a ReverseAuth that succeeds adds the held amount to the account's
\* available_balance, takes it from hold_balance and sets the authorization
\* REVERSED.
C9_ReverseRestoresAvailable ==
    [][(Returned("ReverseAuth") /\ last'.err = ErrNone) =>
        LET id == last'.auth
            a  == auths[id].account
        IN  /\ accounts'[a].available_balance
                 = accounts[a].available_balance + auths[id].amount
            /\ accounts'[a].hold_balance = accounts[a].hold_balance - auths[id].amount
            /\ auths'[id].status = "REVERSED"
    ]_vars

\* C10: ReverseAuth or ReverseByStan aimed at an authorization that does not
\* exist or is not AUTHORIZED returns an error and persists nothing.
C10_ReverseRejected ==
    [][(\/ /\ Returned("ReverseAuth")
           /\ (last'.auth \notin DOMAIN auths \/ auths[last'.auth].status # "AUTHORIZED")
        \/ /\ Returned("ReverseByStan")
           /\ \A i \in RowsWithKey(last'.card, last'.stan) : auths[i].status # "AUTHORIZED") =>
        /\ last'.err # ErrNone
        /\ NothingPersisted
    ]_vars

\* C10 witness: a reversal of a CAPTURED authorization was refused.
C10_Witness ==
    /\ last.op \in {"ReverseAuth", "ReverseByStan"}
    /\ last.err = ErrBadStatus
    /\ last.auth \in DOMAIN auths
    /\ auths[last.auth].status = "CAPTURED"

\* A CaptureAuth or CaptureByStan call returns in this step.
CaptureReturned == Returned("CaptureAuth") \/ Returned("CaptureByStan")

\* What a capture of `amt` on authorization `id` that commits leaves behind:
\* hold_balance of its account lowered by amt, one CAPTURED transaction for
\* amt referencing id appended, the status set to `status`, nothing else
\* touched.
CaptureEffect(id, amt, status) ==
    LET a == auths[id].account
    IN  /\ accounts'[a].hold_balance = accounts[a].hold_balance - amt
        /\ accounts'[a].available_balance = accounts[a].available_balance
        /\ \A b \in Accounts \ {a} : accounts'[b] = accounts[b]
        /\ Len(txns') = Len(txns) + 1
        /\ SubSeq(txns', 1, Len(txns)) = txns
        /\ txns'[Len(txns')].amount = amt
        /\ txns'[Len(txns')].status = "CAPTURED"
        /\ txns'[Len(txns')].auth = id
        /\ txns'[Len(txns')].account = a
        /\ auths' = [auths EXCEPT ![id].status = status]

C13_CaptureRejected ==
    [][(/\ CaptureReturned
        /\ \/ last'.auth \notin DOMAIN auths
           \/ auths[last'.auth].status # "AUTHORIZED"
           \/ ToUpper(auths[last'.auth].currency) # ToUpper(last'.cur)
           \/ last'.amount > auths[last'.auth].amount) =>
        /\ last'.err # ErrNone
        /\ NothingPersisted
    ]_vars

\* C13 witness: a capture in another currency was refused on an open
\* authorization whose amount would have allowed it.
C13_Witness ==
    /\ last.op \in {"CaptureAuth", "CaptureByStan"}
    /\ last.err = ErrCurrencyMismatch
    /\ last.auth \in DOMAIN auths
    /\ auths[last.auth].status = "AUTHORIZED"
    /\ last.amount <= auths[last.auth].amount
    /\ txns = << >>

Terminal == {"CAPTURED", "REVERSED"}

\* authorizations whose status this step changes
StatusChanged == {i \in DOMAIN auths : auths'[i].status # auths[i].status}

\* C14: an authorization that is CAPTURED or REVERSED is never changed
\* again, and every step that moves a balance does so for a new hold or for
\* authorizations that were AUTHORIZED when it ran: the one a capture or
\* reversal names, or the ones a sweep turns REVERSED, whose amounts are all
\* that the sweep takes from hold_balance.
C14_TerminalStatuses ==
    [][/\ \A i \in DOMAIN auths :
             auths[i].status \in Terminal =>
                 (i \in DOMAIN auths' /\ auths'[i] = auths[i])
       /\ accounts' # accounts =>
             \/ Len(auths') = Len(auths) + 1
             \/ \E p \in Procs :
                   /\ tx[p].pc \in {"cap_apply", "rev_apply"}
                   /\ tx'[p].pc = "idle"
                   /\ last'.op \in {"CaptureAuth", "CaptureByStan",
                                    "ReverseAuth", "ReverseByStan"}
                   /\ last'.auth = tx[p].auth
                   /\ auths[last'.auth].status = "AUTHORIZED"
                   /\ StatusChanged \subseteq {last'.auth}
             \/ /\ \E p \in Procs : tx[p].pc = "swp_apply" /\ tx'[p].pc = "idle"
                /\ last'.op = "ReleaseExpiredHolds"
                /\ \A i \in StatusChanged : auths[i].status = "AUTHORIZED"
                /\ \A a \in Accounts :
                      accounts[a].hold_balance - accounts'[a].hold_balance
                        = SumAmounts({i \in StatusChanged : auths[i].account = a})
    ]_vars

\* C14 witness: a sweep passed over a CAPTURED authorization whose expiry
\* has passed, next to a REVERSED one.
C14_Witness ==
    /\ last.op = "ReleaseExpiredHolds"
    /\ last.err = ErrNone
    /\ last.n = 0
    /\ \E i \in DOMAIN auths :
          /\ auths[i].status = "CAPTURED"
          /\ auths[i].hold_expires_at # NoExpiry
          /\ auths[i].hold_expires_at <= now
    /\ \E j \in DOMAIN auths : auths[j].status = "REVERSED"

\* Authorization i is AUTHORIZED and its hold_expires_at has passed.
Expired(i) ==
    /\ auths[i].status = "AUTHORIZED"
    /\ auths[i].hold_expires_at # NoExpiry
    /\ auths[i].hold_expires_at <= now

\* Connection p finishes a sweep that had selected rows.
SweepCommits(p) == tx[p].pc = "swp_apply" /\ tx'[p].pc = "idle"

C16_ConcurrentSweepsDisjoint ==
    /\ [](\A p, q \in Procs :
            (p # q /\ tx[p].pc = "swp_apply" /\ tx[q].pc = "swp_apply")
                => tx[p].ids \cap tx[q].ids = {})
    /\ [][\A p \in Procs :
            (SweepCommits(p) /\ last'.err = ErrNone) =>
                /\ \A i \in tx[p].ids : auths[i].status = "AUTHORIZED"
                /\ StatusChanged = tx[p].ids
                /\ \A i \in StatusChanged : auths'[i].status = "REVERSED"
                /\ last'.n = Cardinality(StatusChanged)
                /\ \A a \in Accounts :
                      accounts[a].hold_balance - accounts'[a].hold_balance
                        = SumAmounts({i \in StatusChanged : auths[i].account = a})
       ]_vars

\* C16 witness: one sweep has committed its release while another sweep
\* still holds a different expired authorization it selected meanwhile.
C16_Witness ==
    /\ last.op = "ReleaseExpiredHolds"
    /\ last.err = ErrNone
    /\ last.n = 1
    /\ \E p \in Procs :
          /\ tx[p].pc = "swp_apply"
          /\ tx[p].ids # {}
          /\ \A i \in tx[p].ids : Expired(i)
          /\ \E j \in DOMAIN auths \ tx[p].ids :
                auths[j].status = "REVERSED" /\ auths[j].hold_expires_at # NoExpiry

\* Connection p holds the row lock of a capture or a reversal.
Finalizing(p) == tx[p].pc \in {"cap_apply", "rev_apply"}

AuthorizeCall == last.op \in {"FindCardForAuthorization", "CreateAuthAndHold"}

\* C18: AuthorizeRequest answers a card that is not found with the
\* invalid-card approval code and a nil error, and insufficient funds with
\* the insufficient-funds approval code and a nil error; it returns an error
\* only when the repository call failed with a database error.
C18_DeclinesAreNotErrors ==
    AuthorizeCall =>
        LET resp == AuthorizeResponse(last)
        IN  /\ (last.op = "FindCardForAuthorization" /\ last.err = ErrNotFound) =>
                  /\ resp.ApprovalCode = ApprovalCodeInvalidCard
                  /\ resp.err = ErrNone
            /\ (last.op = "CreateAuthAndHold" /\ last.err = ErrInsufficientFunds) =>
                  /\ resp.ApprovalCode = ApprovalCodeInsufficientFunds
                  /\ resp.err = ErrNone
            /\ (last.op = "CreateAuthAndHold" /\ last.err = ErrNone) =>
                  /\ resp.ApprovalCode = ApprovalCodeApproved
                  /\ resp.AuthorizationCode = last.authc
                  /\ resp.err = ErrNone
            /\ resp.err # ErrNone <=> last.err = ErrDb

\* C18 witness: a request was declined for lack of funds by the conditional
\* UPDATE and is answered with the decline code and no error.
C18_Witness ==
    /\ FundsDecline
    /\ last.amount > accounts[CardAccount(last.card)].available_balance
    /\ AuthorizeResponse(last).ApprovalCode = ApprovalCodeInsufficientFunds
    /\ AuthorizeResponse(last).err = ErrNone

\* A CreateCard call made on its own returns in this step.
CreateCardReturns ==
    /\ last'.op = "CreateCard"
    /\ <<cards, last>>' # <<cards, last>>

\* The CreateCard call inside p's IssueCard returns the conflict signal.
CreateConflictInIssue(p) ==
    /\ issue[p].pc = "create"
    /\ issue'[p].pc = "generate"

\* no two stored cards carry the same number
UniquePANs ==
    /\ \A i, j \in DOMAIN cards : cards[i].number = cards[j].number => i = j
    /\ ~db => panIndex = StoredPans

\* C19: no two stored cards carry the same PAN, whatever IssueCard and
\* CreateCard calls ran and however they interleaved.  A CreateCard call for
\* a number that is already stored returns the conflict signal (or, in the
\* database, another error), never success, and leaves the store as it was;
\* the conflict signal is returned only for a stored number; a successful
\* call appends exactly its card.
C19_UniquePANs ==
    /\ []UniquePANs
    /\ [][/\ CreateCardReturns =>
               /\ last'.pan \in StoredPans =>
                     /\ last'.err \in {ErrConflict} \cup (IF db THEN {ErrDb} ELSE {})
                     /\ UNCHANGED <<cards, panIndex>>
               /\ last'.err = ErrConflict => last'.pan \in StoredPans
               /\ last'.err # ErrConflict => last'.err \in {ErrNone, ErrDb}
               /\ last'.err = ErrNone =>
                     cards' = Append(cards, [number |-> last'.pan, account |-> "acc1"])
               /\ last'.err # ErrNone => UNCHANGED <<cards, panIndex>>
          /\ \A p \in Procs :
                CreateConflictInIssue(p) =>
                   /\ issue[p].pan \in StoredPans
                   /\ UNCHANGED <<cards, panIndex>>]_vars

\* C19 witness: two cards are stored and a CreateCard call for one of their
\* numbers has just been refused with the conflict signal.
C19_Witness ==
    /\ Len(cards) = 2
    /\ last.op = "CreateCard"
    /\ last.err = ErrConflict
    /\ last.pan \in StoredPans

\* p's IssueCard call takes the step that makes its CreateCard call.
IssueCreates(p) ==
    /\ issue[p].pc = "create"
    /\ issue'[p] # issue[p]

\* p's IssueCard call returns err in this step.
IssueReturns(p, err) ==
    /\ issue[p].pc # "idle"
    /\ issue'[p].pc = "idle"
    /\ last'.op = "IssueCard"
    /\ last'.err = err

\* C20: one IssueCard call makes at most 5 CreateCard calls.  A call that
\* inserts returns its card at once; a conflict stores nothing and is
\* followed by a new generation before the next CreateCard call; any other
\* error returns at once, reported, with nothing stored.  After 5 conflicts
\* in a row the call returns an error and has stored no card.  Every call
\* returns.
C20_IssueCardBoundedRetries ==
    /\ [](\A p \in Procs : issue[p].calls <= MaxCreateAttempts)
    /\ [][\A p \in Procs :
             /\ IssueCreates(p) =>
                   /\ issue[p].calls < MaxCreateAttempts
                   /\ \/ /\ issue[p].pan \notin StoredPans
                         /\ cards' = Append(cards, [number |-> issue[p].pan,
                                                    account |-> "acc1"])
                         /\ IssueReturns(p, ErrNone)
                         /\ last'.pan = issue[p].pan
                         /\ last'.calls = issue[p].calls + 1
                      \/ /\ issue[p].pan \in StoredPans
                         /\ UNCHANGED <<cards, panIndex>>
                         /\ issue'[p].pc = "generate"
                         /\ issue'[p].calls = issue[p].calls + 1
                         /\ issue'[p].attempt = issue[p].attempt + 1
                      \/ /\ db
                         /\ UNCHANGED <<cards, panIndex>>
                         /\ IssueReturns(p, ErrCreatingCard)
                         /\ last'.calls = issue[p].calls + 1
             /\ (issue[p].pc # "create" /\ issue'[p] # issue[p]) =>
                   UNCHANGED <<cards, panIndex>>
             /\ (issue'[p].pc = "create" /\ issue'[p] # issue[p]) =>
                   /\ issue[p].pc \in {"idle", "generate"}
                   /\ issue'[p].pan \in Pans
             /\ IssueReturns(p, ErrRetriesExhausted) =>
                   /\ last'.calls = MaxCreateAttempts
                   /\ last'.pan = NoPan
                   /\ UNCHANGED <<cards, panIndex>>
             /\ (\E e \in {ErrGeneratePan, ErrRegeneratePan} : IssueReturns(p, e)) =>
                   /\ last'.pan = NoPan
                   /\ UNCHANGED <<cards, panIndex>>]_vars
    /\ \A p \in Procs : (issue[p].pc # "idle") ~> (issue[p].pc = "idle")

\* C20 witness: an IssueCard call has given up after its fifth CreateCard
\* call met a conflict like the four before it.
C20_Witness ==
    /\ last.op = "IssueCard"
    /\ last.err = ErrRetriesExhausted
    /\ last.calls = MaxCreateAttempts

\* ======================================================= library functions
\* The functions of cardgen, security and expiry keep no state between
\* calls.  Each is checked under a specification of its own: Init hands the
\* call its arguments in fn, the actions run the body, and the ledger and the
\* card store stay as they were created.
InitStores ==
    /\ accounts = [a \in Accounts |->
                      [available_balance |-> InitBalance, hold_balance |-> 0]]
    /\ auths = << >>
    /\ txns = << >>
    /\ now = 0
    /\ tx = [p \in Procs |-> Idle]
    /\ last = NoCall
    /\ db = TRUE
    /\ cards = << >>
    /\ panIndex = {}
    /\ issue = [p \in Procs |-> IssueIdle]

\* ------------------------------------------------------- GenerateUniquePAN
MaxRetriesArg == 2     \* maxRetries arguments run over -1 .. MaxRetriesArg

\* if maxRetries <= 0 { maxRetries = 5 }
DefaultMaxRetries == 5

\* Variant: a maxRetries argument <= 0 is taken as it is.
EffectiveRetriesAsGiven(maxRetries) == maxRetries

\* maxRetries after the default has been applied
EffectiveRetries(maxRetries) ==
    IF maxRetries <= 0 THEN DefaultMaxRetries ELSE maxRetries

\* GenerateUniquePAN is entered: i = 0, nothing generated.  drawn lists the
\* PANs GeneratePANWithLength returned, asked the PANs handed to exists,
\* answers what exists said to each.
GUP_Entry(maxRetries, hasExists) ==
    [op |-> "GenerateUniquePAN", maxRetries |-> maxRetries,
     hasExists |-> hasExists, i |-> 0, drawn |-> << >>, asked |-> << >>,
     answers |-> << >>, ret |-> "running", pan |-> NoPan]

\* the loop is in an iteration: i <= maxRetries
GUP_InLoop ==
    /\ fn.op = "GenerateUniquePAN"
    /\ fn.ret = "running"
    /\ fn.i <= EffectiveRetries(fn.maxRetries)

\* one iteration with exists == nil: the generated PAN is returned
GUP_NoCallback(pan) ==
    /\ GUP_InLoop
    /\ ~fn.hasExists
    /\ fn' = [fn EXCEPT !.drawn = Append(@, pan), !.ret = "ok", !.pan = pan]
    /\ UNCHANGED storeVars

\* one iteration in which exists fails
GUP_ExistsError(pan) ==
    /\ GUP_InLoop
    /\ fn.hasExists
    /\ fn' = [fn EXCEPT !.drawn = Append(@, pan), !.asked = Append(@, pan),
                        !.answers = Append(@, "error"),
                        !.ret = "exists callback"]
    /\ UNCHANGED storeVars

\* one iteration in which exists reports the PAN unused
GUP_Unused(pan) ==
    /\ GUP_InLoop
    /\ fn.hasExists
    /\ fn' = [fn EXCEPT !.drawn = Append(@, pan), !.asked = Append(@, pan),
                        !.answers = Append(@, "unused"),
                        !.ret = "ok", !.pan = pan]
    /\ UNCHANGED storeVars

\* one iteration in which exists reports the PAN used: i++, and the loop
\* ends with the exhaustion error once i > maxRetries
GUP_Used(pan) ==
    /\ GUP_InLoop
    /\ fn.hasExists
    /\ fn' = [fn EXCEPT !.drawn = Append(@, pan), !.asked = Append(@, pan),
                        !.answers = Append(@, "used"),
                        !.i = @ + 1,
                        !.ret = IF fn.i + 1 <= EffectiveRetries(fn.maxRetries)
                                THEN "running" ELSE "exhausted"]
    /\ UNCHANGED storeVars

\* SpecGUP: one GenerateUniquePAN call, for every maxRetries argument and
\* every run of answers of the exists callback.
InitGUP ==
    /\ InitStores
    /\ \E maxRetries \in -1 .. MaxRetriesArg, hasExists \in BOOLEAN :
          fn = GUP_Entry(maxRetries, hasExists)

NextGUP ==
    \E pan \in Pans :
       \/ GUP_NoCallback(pan)
       \/ GUP_ExistsError(pan)
       \/ GUP_Unused(pan)
       \/ GUP_Used(pan)

SpecGUP == InitGUP /\ [][NextGUP]_vars

\* what exists said to the first n PANs was "used"
AllUsed(n) == \A k \in 1 .. n : fn.answers[k] = "used"

\* C21: GenerateUniquePAN hands every generated PAN to exists exactly once;
\* it returns the first PAN exists reports unused, an error of exists ends
\* the call at once, and when exists reports every PAN used the call fails
\* with the exhaustion error after exactly maxRetries+1 generated PANs, 6 when
\* maxRetries <= 0.  A call that has returned generates nothing more.
C21_GenerateUniquePAN ==
    /\ [](fn.op = "GenerateUniquePAN" /\ fn.hasExists =>
            LET n     == Len(fn.drawn)
                tries == IF fn.maxRetries <= 0 THEN 6 ELSE fn.maxRetries + 1
            IN  /\ fn.asked = fn.drawn
                /\ Len(fn.answers) = n
                /\ n <= tries
                /\ fn.ret = "running" => AllUsed(n) /\ n < tries
                /\ fn.ret = "ok" =>
                      /\ n >= 1
                      /\ AllUsed(n - 1)
                      /\ fn.answers[n] = "unused"
                      /\ fn.pan = fn.drawn[n]
                /\ fn.ret = "exists callback" =>
                      /\ n >= 1
                      /\ AllUsed(n - 1)
                      /\ fn.answers[n] = "error"
                      /\ fn.pan = NoPan
                /\ fn.ret = "exhausted" =>
                      /\ AllUsed(n)
                      /\ n = tries
                      /\ fn.pan = NoPan)
    /\ [][fn.op = "GenerateUniquePAN" /\ fn.ret # "running" => fn' = fn]_vars

\* C21 witness: called with maxRetries <= 0 and an exists that always says
\* used, the call has failed after its sixth PAN.
C21_Witness ==
    /\ fn.op = "GenerateUniquePAN"
    /\ fn.maxRetries <= 0
    /\ fn.ret = "exhausted"
    /\ Len(fn.asked) = 6

\* ------------------------------------------------------------------ strings
\* A Go string is the sequence of its bytes, each a one-character string.
Digits10 == <<"0", "1", "2", "3", "4", "5", "6", "7", "8", "9">>
DigitChars == {Digits10[i] : i \in 1 .. 10}

\* '0' + byte(d)
DigitChar(d) == Digits10[d + 1]

\* int(c - '0') for a digit c
DigitVal(c) == CHOOSE d \in 0 .. 9 : Digits10[d + 1] = c

\* cardgen.IsDigits: every byte is '0'..'9' (true of the empty string)
IsDigits(s) == \A i \in DOMAIN s : s[i] \in DigitChars

\* the bytes strings.TrimSpace and NormalizePAN drop
SpaceChars == {" ", "\t"}

\* strings.TrimSpace
RECURSIVE TrimSpace(_)
TrimSpace(s) ==
    IF s = << >> THEN s
    ELSE IF Head(s) \in SpaceChars THEN TrimSpace(Tail(s))
    ELSE IF s[Len(s)] \in SpaceChars THEN TrimSpace(SubSeq(s, 1, Len(s) - 1))
    ELSE s

\* cardgen.NormalizePAN: trim, then drop every space, tab and dash
RECURSIVE DropSeparators(_)
DropSeparators(s) ==
    IF s = << >> THEN s
    ELSE IF Head(s) \in SpaceChars \cup {"-"} THEN DropSeparators(Tail(s))
    ELSE <<Head(s)>> \o DropSeparators(Tail(s))

NormalizePAN(s) == DropSeparators(TrimSpace(s))

\* --------------------------------------------------------------------- Luhn
\* the loop of luhnCheckDigit from byte i down to the first: dbl says
\* whether byte i is doubled
RECURSIVE LuhnSum(_, _, _)
LuhnSum(body, i, dbl) ==
    IF i = 0 THEN 0
    ELSE LET d  == DigitVal(body[i])
             d2 == IF dbl THEN (IF 2 * d > 9 THEN 2 * d - 9 ELSE 2 * d) ELSE d
         IN  d2 + LuhnSum(body, i - 1, ~dbl)

\* cardgen.luhnCheckDigit (security.luhnCheckDigit is the same function)
luhnCheckDigit(body) ==
    DigitChar((10 - (LuhnSum(body, Len(body), TRUE) % 10)) % 10)

\* Variant: the check digit is not compared.
ValidatePANNoLuhn(pan) ==
    IF pan = << >> THEN "pan is required"
    ELSE IF ~IsDigits(pan) THEN "pan must contain digits only"
    ELSE IF Len(pan) < 13 \/ Len(pan) > 19 THEN "pan length must be 13..19 digits"
    ELSE ErrNone

\* cardgen.ValidatePAN: the error it returns, ErrNone for nil
ValidatePAN(pan) ==
    IF pan = << >> THEN "pan is required"
    ELSE IF ~IsDigits(pan) THEN "pan must contain digits only"
    ELSE IF Len(pan) < 13 \/ Len(pan) > 19 THEN "pan length must be 13..19 digits"
    ELSE IF pan[Len(pan)] # luhnCheckDigit(SubSeq(pan, 1, Len(pan) - 1))
         THEN "invalid luhn check digit"
    ELSE ErrNone

\* Variant: a BIN of any length passes.
ValidateBINAnyLength(bin) ==
    IF bin = << >> THEN "bin is required"
    ELSE IF ~IsDigits(bin) THEN "bin must contain digits only"
    ELSE ErrNone

\* cardgen.ValidateBIN
ValidateBIN(bin) ==
    IF bin = << >> THEN "bin is required"
    ELSE IF ~IsDigits(bin) THEN "bin must contain digits only"
    ELSE IF Len(bin) \notin {6, 8, 9} THEN "bin must be 6, 8, or 9 digits"
    ELSE ErrNone

\* expiry.ValidateYYMM
ValidateYYMM(yymm) ==
    IF Len(yymm) # 4 THEN "expiry must be YYMM (4 digits)"
    ELSE IF ~IsDigits(yymm) THEN "expiry must be digits: YYMM"
    ELSE LET mm == DigitVal(yymm[3]) * 10 + DigitVal(yymm[4])
         IN  IF mm < 1 \/ mm > 12 THEN "expiry month must be 01..12" ELSE ErrNone

\* ------------------------------------------------------------ CVV providers
\* A time.Duration is counted in milliseconds here, so time.Second is 1000;
\* the functions below only compare a duration with time.Second and divide
\* by it.
Second == 1000

\* DemoProvider.ComputeDisplayDCVV: if step <= 0 { step = 30 * time.Second }
DemoDefaultStepSeconds == 30

\* Go's integer division truncates toward zero
GoDiv(a, b) == IF a >= 0 THEN a \div b ELSE -((-a) \div b)

\* Variant: the seconds into the window are not counted.
GoModAlwaysZero(a, b) == 0

\* Go's integer remainder has the sign of the dividend
GoMod(a, b) == IF a >= 0 THEN a % b ELSE -((-a) % b)

\* the value no CVV is returned with
NoCVV == [alg |-> "none"]

\* what a provider call returns: (cvv, ttlSec, err)
CvvRet(cvv, ttl, err) == [cvv |-> cvv, ttl |-> ttl, err |-> err]

normalizeWidth(width) == IF width = 4 THEN 4 ELSE 3

normalizeStep(step) ==
    IF step < Second THEN Second ELSE (step \div Second) * Second

validateServiceCode(sc) ==
    IF Len(sc) # 3 THEN "serviceCode must be 3 digits"
    ELSE IF ~IsDigits(sc) THEN "serviceCode must be digits"
    ELSE ErrNone

\* the service-code test both providers make inline
ProviderServiceCode(sc) ==
    IF Len(sc) # 3 \/ ~IsDigits(sc) THEN "service code must be 3 digits" ELSE ErrNone

validatePanNoCD(noCD) ==
    IF noCD = << >> \/ ~IsDigits(noCD) THEN "panNoCD must be digits only"
    ELSE IF Len(noCD) < 12 \/ Len(noCD) > 18 THEN "panNoCD length must be 12..18"
    ELSE ErrNone

buildValidPAN(noCD) == noCD \o <<luhnCheckDigit(noCD)>>

stripCheckDigit(pan) == IF pan = << >> THEN pan ELSE SubSeq(pan, 1, Len(pan) - 1)

\* panNoCDStrict returns (string, error)
panNoCDStrict(pan) ==
    LET p == NormalizePAN(pan)
    IN  IF ValidatePAN(p) # ErrNone
        THEN [val |-> << >>, err |-> ValidatePAN(p)]
        ELSE [val |-> stripCheckDigit(p), err |-> ErrNone]

\* hmacTruncatedDecimal: the digits are a function of the key, the message,
\* the window bytes and the normalized width; the function itself is kept
\* symbolic
hmacTruncatedDecimal(key, msg, extra, width) ==
    [alg |-> "hmac-sha256", key |-> key, msg |-> msg, extra |-> extra,
     width |-> normalizeWidth(width)]

\* SoftHSMProvider.mac followed by decimalize, kept symbolic in the same way
decimalizedMac(data, window, width) ==
    [alg |-> "des3-mac", key |-> <<"c", "v", "k">>, msg |-> data,
     extra |-> window, width |-> width]

\* the window argument of a static CVV (extra == nil, window == nil)
NoWindow == -1

StaticCVVDemoStrict(pan, expiryYYMM, serviceCode, width, key) ==
    IF ValidateYYMM(expiryYYMM) # ErrNone
    THEN CvvRet(NoCVV, 0, ValidateYYMM(expiryYYMM))
    ELSE IF validateServiceCode(serviceCode) # ErrNone
    THEN CvvRet(NoCVV, 0, validateServiceCode(serviceCode))
    ELSE IF panNoCDStrict(pan).err # ErrNone
    THEN CvvRet(NoCVV, 0, panNoCDStrict(pan).err)
    ELSE CvvRet(hmacTruncatedDecimal(key,
                    <<panNoCDStrict(pan).val, expiryYYMM, serviceCode, "static-v1">>,
                    NoWindow, width),
                0, ErrNone)

\* now.Unix() is unix; step is a Duration
DynamicCVVWithTTLStrict(pan, expiryYYMM, serviceCode, unix, step, width, key) ==
    LET sec    == normalizeStep(step) \div Second
        window == GoDiv(unix, sec)
        rem    == sec - GoMod(unix, sec)
    IN  IF ValidateYYMM(expiryYYMM) # ErrNone
        THEN CvvRet(NoCVV, 0, ValidateYYMM(expiryYYMM))
        ELSE IF validateServiceCode(serviceCode) # ErrNone
        THEN CvvRet(NoCVV, 0, validateServiceCode(serviceCode))
        ELSE IF panNoCDStrict(pan).err # ErrNone
        THEN CvvRet(NoCVV, 0, panNoCDStrict(pan).err)
        ELSE CvvRet(hmacTruncatedDecimal(key,
                        <<panNoCDStrict(pan).val, expiryYYMM, serviceCode, "dynamic-v1">>,
                        window, width),
                    IF rem <= 0 THEN sec ELSE rem, ErrNone)

\* NewDemoProviderStrict(key): the provider it returns
NewDemoProviderStrict(key) == [key |-> key]

\* DemoProvider.ComputeCVV2 on provider p
DemoComputeCVV2(p, panNoCD, yymm, sc, width) ==
    IF Len(p.key) = 0 THEN CvvRet(NoCVV, 0, "cvv demo key is required")
    ELSE IF ValidateYYMM(yymm) # ErrNone THEN CvvRet(NoCVV, 0, ValidateYYMM(yymm))
    ELSE IF ProviderServiceCode(sc) # ErrNone THEN CvvRet(NoCVV, 0, ProviderServiceCode(sc))
    ELSE IF validatePanNoCD(panNoCD) # ErrNone THEN CvvRet(NoCVV, 0, validatePanNoCD(panNoCD))
    ELSE StaticCVVDemoStrict(buildValidPAN(panNoCD), yymm, sc, normalizeWidth(width), p.key)

\* the step DemoProvider.ComputeDisplayDCVV works with
DemoStep(step) ==
    normalizeStep(IF step <= 0 THEN DemoDefaultStepSeconds * Second ELSE step)

\* DemoProvider.ComputeDisplayDCVV on provider p when time.Now().Unix() is unix
DemoComputeDisplayDCVV(p, panNoCD, yymm, sc, step, width, unix) ==
    IF Len(p.key) = 0 THEN CvvRet(NoCVV, 0, "cvv demo key is required")
    ELSE IF ValidateYYMM(yymm) # ErrNone THEN CvvRet(NoCVV, 0, ValidateYYMM(yymm))
    ELSE IF ProviderServiceCode(sc) # ErrNone THEN CvvRet(NoCVV, 0, ProviderServiceCode(sc))
    ELSE IF validatePanNoCD(panNoCD) # ErrNone THEN CvvRet(NoCVV, 0, validatePanNoCD(panNoCD))
    ELSE DynamicCVVWithTTLStrict(buildValidPAN(panNoCD), yymm, sc, unix,
                                 DemoStep(step), normalizeWidth(width), p.key)

\* the PAN test SoftHSMProvider makes inline
HSMPanCheck(panNoCD) ==
    IF panNoCD = << >> \/ ~IsDigits(panNoCD) THEN "panNoCD must be digits only"
    ELSE ErrNone

\* SoftHSMProvider.ComputeCVV2 on an opened provider whose token signs
SoftHSMComputeCVV2(panNoCD, yymm, sc, width) ==
    IF ValidateYYMM(yymm) # ErrNone THEN CvvRet(NoCVV, 0, ValidateYYMM(yymm))
    ELSE IF ProviderServiceCode(sc) # ErrNone THEN CvvRet(NoCVV, 0, ProviderServiceCode(sc))
    ELSE IF HSMPanCheck(panNoCD) # ErrNone THEN CvvRet(NoCVV, 0, HSMPanCheck(panNoCD))
    ELSE CvvRet(decimalizedMac(panNoCD \o yymm \o sc, NoWindow, normalizeWidth(width)),
                0, ErrNone)

\* the step SoftHSMProvider.ComputeDisplayDCVV works with
SoftHSMStep(step) ==
    IF step < Second THEN Second ELSE (step \div Second) * Second

\* SoftHSMProvider.ComputeDisplayDCVV when time.Now().Unix() is unix >= 0
SoftHSMComputeDisplayDCVV(panNoCD, yymm, sc, step, width, unix) ==
    LET sec == SoftHSMStep(step) \div Second
        ttl == sec - GoMod(unix, sec)
    IN  IF ValidateYYMM(yymm) # ErrNone THEN CvvRet(NoCVV, 0, ValidateYYMM(yymm))
        ELSE IF ProviderServiceCode(sc) # ErrNone THEN CvvRet(NoCVV, 0, ProviderServiceCode(sc))
        ELSE IF HSMPanCheck(panNoCD) # ErrNone THEN CvvRet(NoCVV, 0, HSMPanCheck(panNoCD))
        ELSE CvvRet(decimalizedMac(panNoCD \o yymm \o sc, unix \div sec,
                                   normalizeWidth(width)),
                    IF ttl <= 0 THEN sec ELSE ttl, ErrNone)

\* SpecCVV: a DemoProvider is constructed from a key that may be empty, a
\* SoftHSMProvider is open, and each of the four Compute methods is called
\* once on the same arguments.
MaxPanNoCDLen == 19    \* panNoCD arguments have 0 .. MaxPanNoCDLen digits

\* a string of n digits
DigitString(n) == [i \in 1 .. n |-> DigitChar((3 * i) % 10)]

CvvKeys    == {<< >>, <<"k">>}
CvvPans    == {DigitString(n) : n \in 0 .. MaxPanNoCDLen}
                 \cup {[DigitString(12) EXCEPT ![5] = "a"]}
CvvExpiries == {<<"3", "0", "0", "2">>, <<"3", "0", "1", "3">>,
                <<"3", "0", "0", "0">>, <<"3", "0", "a", "2">>, <<"3", "0", "2">>}
CvvServiceCodes == {<<"1", "0", "1">>, <<"1", "0">>, <<"1", "0", "a">>,
                    <<"1", "0", "1", "1">>}
CvvWidths  == {3, 4, 5}

\* a method that has not been called
NotCalled == CvvRet(NoCVV, 0, "not called")

InitCVV ==
    /\ InitStores
    /\ \E key \in CvvKeys, pan \in CvvPans, yymm \in CvvExpiries,
          sc \in CvvServiceCodes, width \in CvvWidths :
          fn = [op |-> "cvv", key |-> key, panNoCD |-> pan, yymm |-> yymm,
                sc |-> sc, width |-> width, step |-> 30 * Second, unix |-> 45,
                made |-> FALSE, demo |-> NewDemoProviderStrict(<< >>),
                demoCVV2 |-> NotCalled, demoDCVV |-> NotCalled,
                hsmCVV2 |-> NotCalled, hsmDCVV |-> NotCalled]

Call_NewDemoProviderStrict ==
    /\ fn.op = "cvv"
    /\ ~fn.made
    /\ fn' = [fn EXCEPT !.made = TRUE, !.demo = NewDemoProviderStrict(fn.key)]
    /\ UNCHANGED storeVars

Call_DemoComputeCVV2 ==
    /\ fn.op = "cvv"
    /\ fn.made
    /\ fn.demoCVV2 = NotCalled
    /\ fn' = [fn EXCEPT !.demoCVV2 =
                 DemoComputeCVV2(fn.demo, fn.panNoCD, fn.yymm, fn.sc, fn.width)]
    /\ UNCHANGED storeVars

Call_DemoComputeDisplayDCVV ==
    /\ fn.op = "cvv"
    /\ fn.made
    /\ fn.demoDCVV = NotCalled
    /\ fn' = [fn EXCEPT !.demoDCVV =
                 DemoComputeDisplayDCVV(fn.demo, fn.panNoCD, fn.yymm, fn.sc,
                                        fn.step, fn.width, fn.unix)]
    /\ UNCHANGED storeVars

Call_SoftHSMComputeCVV2 ==
    /\ fn.op = "cvv"
    /\ fn.hsmCVV2 = NotCalled
    /\ fn' = [fn EXCEPT !.hsmCVV2 =
                 SoftHSMComputeCVV2(fn.panNoCD, fn.yymm, fn.sc, fn.width)]
    /\ UNCHANGED storeVars

Call_SoftHSMComputeDisplayDCVV ==
    /\ fn.op = "cvv"
    /\ fn.hsmDCVV = NotCalled
    /\ fn' = [fn EXCEPT !.hsmDCVV =
                 SoftHSMComputeDisplayDCVV(fn.panNoCD, fn.yymm, fn.sc, fn.step,
                                           fn.width, fn.unix)]
    /\ UNCHANGED storeVars

NextCVV ==
    \/ Call_NewDemoProviderStrict
    \/ Call_DemoComputeCVV2
    \/ Call_DemoComputeDisplayDCVV
    \/ Call_SoftHSMComputeCVV2
    \/ Call_SoftHSMComputeDisplayDCVV

SpecCVV == InitCVV /\ [][NextCVV]_vars

\* C22: a missing key is fatal when the HMAC reference provider is
\* constructed: no constructed provider holds an empty key, and no
\* ComputeCVV2 or ComputeDisplayDCVV call is the first to report it.
C22_MissingKeyFatalAtConstruction ==
    fn.op = "cvv" =>
       /\ fn.made => Len(fn.demo.key) > 0
       /\ fn.demoCVV2.err # "cvv demo key is required"
       /\ fn.demoDCVV.err # "cvv demo key is required"

\* the panNoCD argument is digits only and 12 to 18 long
PanNoCDValid == IsDigits(fn.panNoCD) /\ Len(fn.panNoCD) \in 12 .. 18

\* C23: called on the same arguments, the two ComputeCVV2 methods both accept
\* or both reject, and so do the two ComputeDisplayDCVV methods; all four
\* reject an expiry whose month is not 01..12, a service code that is not 3
\* digits and a panNoCD that is not 12 to 18 digits.
C23_ProvidersInterchangeable ==
    (/\ fn.op = "cvv"
     /\ fn.made
     /\ Len(fn.demo.key) > 0
     /\ \A r \in {fn.demoCVV2, fn.demoDCVV, fn.hsmCVV2, fn.hsmDCVV} : r # NotCalled) =>
        /\ fn.demoCVV2.err = ErrNone <=> fn.hsmCVV2.err = ErrNone
        /\ fn.demoDCVV.err = ErrNone <=> fn.hsmDCVV.err = ErrNone
        /\ (ValidateYYMM(fn.yymm) # ErrNone \/ ~PanNoCDValid
               \/ Len(fn.sc) # 3 \/ ~IsDigits(fn.sc)) =>
              \A r \in {fn.demoCVV2, fn.demoDCVV, fn.hsmCVV2, fn.hsmDCVV} :
                 r.err # ErrNone

\* SpecDCVV: the dynamic CVV is computed second after second, by
\* DynamicCVVWithTTLStrict for clocks on either side of the Unix epoch and by
\* the two providers, whose time.Now() is a host clock at or after the epoch.
MaxStepSeconds == 3    \* step arguments reach MaxStepSeconds seconds and a half
MaxUnix        == 6    \* the clock runs up to MaxUnix seconds after the epoch

\* how far before the epoch the clock may start
PreEpochStart == -3

StepInputs ==
    {-Second, 0, 1, Second - 1}
       \cup {k * Second : k \in 1 .. MaxStepSeconds}
       \cup {k * Second + 500 : k \in 1 .. MaxStepSeconds}

\* the arguments other than step: a valid card and a non-empty key
DcvvPan == DigitString(15)
DcvvExpiry == <<"3", "0", "0", "2">>
DcvvServiceCode == <<"1", "0", "1">>
DcvvKey == <<"k">>

\* the results of one second
NoneCalled == [strict |-> NotCalled, demo |-> NotCalled, hsm |-> NotCalled]

InitDCVV ==
    /\ InitStores
    /\ \E step \in StepInputs, unix \in {PreEpochStart, 0} :
          fn = [op |-> "dcvv", step |-> step, unix |-> unix,
                cur |-> NoneCalled, prev |-> NoneCalled]

Call_DynamicCVVWithTTLStrict ==
    /\ fn.op = "dcvv"
    /\ fn.cur.strict = NotCalled
    /\ fn' = [fn EXCEPT !.cur.strict =
                 DynamicCVVWithTTLStrict(buildValidPAN(DcvvPan), DcvvExpiry,
                                         DcvvServiceCode, fn.unix, fn.step, 3, DcvvKey)]
    /\ UNCHANGED storeVars

Call_DemoDisplayDCVV ==
    /\ fn.op = "dcvv"
    /\ fn.unix >= 0
    /\ fn.cur.demo = NotCalled
    /\ fn' = [fn EXCEPT !.cur.demo =
                 DemoComputeDisplayDCVV(NewDemoProviderStrict(DcvvKey), DcvvPan,
                                        DcvvExpiry, DcvvServiceCode, fn.step, 3, fn.unix)]
    /\ UNCHANGED storeVars

Call_SoftHSMDisplayDCVV ==
    /\ fn.op = "dcvv"
    /\ fn.unix >= 0
    /\ fn.cur.hsm = NotCalled
    /\ fn' = [fn EXCEPT !.cur.hsm =
                 SoftHSMComputeDisplayDCVV(DcvvPan, DcvvExpiry, DcvvServiceCode,
                                           fn.step, 3, fn.unix)]
    /\ UNCHANGED storeVars

\* one second passes
ClockTick ==
    /\ fn.op = "dcvv"
    /\ fn.unix < MaxUnix
    /\ fn' = [fn EXCEPT !.unix = @ + 1, !.prev = fn.cur, !.cur = NoneCalled]
    /\ UNCHANGED storeVars

NextDCVV ==
    \/ Call_DynamicCVVWithTTLStrict
    \/ Call_DemoDisplayDCVV
    \/ Call_SoftHSMDisplayDCVV
    \/ ClockTick

SpecDCVV == InitDCVV /\ [][NextDCVV]_vars

\* the remainder t mod s of mathematics, in 0 .. s-1
MathMod(t, s) == ((t % s) + s) % s

\* floor(t / s)
Floor(t, s) == (t - MathMod(t, s)) \div s

\* The result r of second t and the result q of second t-1 (if it was
\* computed) count down a window of s seconds.
CountsDown(r, q, t, s) ==
    /\ r # NotCalled =>
          /\ r.err = ErrNone
          /\ r.ttl = s - MathMod(t, s)
          /\ r.ttl \in 1 .. s
          /\ r.cvv.extra = Floor(t, s)
    /\ (r # NotCalled /\ q # NotCalled) =>
          IF r.cvv.extra = q.cvv.extra
          THEN r.ttl = q.ttl - 1
          ELSE /\ r.cvv.extra = q.cvv.extra + 1
               /\ r.ttl = s

\* each function counts down its own effective step
AllCountDown ==
    /\ CountsDown(fn.cur.strict, fn.prev.strict, fn.unix,
                  normalizeStep(fn.step) \div Second)
    /\ CountsDown(fn.cur.hsm, fn.prev.hsm, fn.unix, SoftHSMStep(fn.step) \div Second)
    /\ CountsDown(fn.cur.demo, fn.prev.demo, fn.unix, DemoStep(fn.step) \div Second)

\* C24 as stated: at every instant t and for every effective step s the TTL
\* is s - (t mod s) and lies in 1..s, falls by 1 with each second of a window
\* floor(t/s), and returns to s when the window counter rises by 1.
C24_Original ==
    fn.op = "dcvv" => AllCountDown

\* C24: at every instant t at or after the Unix epoch and for every
\* effective step s the TTL is s - (t mod s) and lies in 1..s, falls by 1 with
\* each second of a window floor(t/s), and returns to s when the window
\* counter rises by 1.
C24_TTLCountsDown ==
    (fn.op = "dcvv" /\ fn.unix >= 0) =>
       /\ CountsDown(fn.cur.strict,
                     IF fn.unix >= 1 THEN fn.prev.strict ELSE NotCalled, fn.unix,
                     normalizeStep(fn.step) \div Second)
       /\ CountsDown(fn.cur.hsm, fn.prev.hsm, fn.unix, SoftHSMStep(fn.step) \div Second)
       /\ CountsDown(fn.cur.demo, fn.prev.demo, fn.unix, DemoStep(fn.step) \div Second)

\* C24 witness: with a step of two seconds or more, the TTL computed in the
\* last second of a window was 1 and the TTL of the next second is the step
\* again, under the next window counter.
C24_Witness ==
    /\ fn.op = "dcvv"
    /\ fn.step >= 2 * Second
    /\ fn.unix >= 1
    /\ fn.prev.strict # NotCalled /\ fn.prev.hsm # NotCalled
    /\ fn.cur.strict # NotCalled /\ fn.cur.hsm # NotCalled
    /\ fn.prev.strict.ttl = 1
    /\ fn.cur.strict.ttl = fn.step \div Second
    /\ fn.cur.hsm.ttl = fn.step \div Second
    /\ fn.cur.strict.cvv.extra = fn.prev.strict.cvv.extra + 1

\* C25: whatever the step argument, zero, negative and sub-second ones
\* included, both providers derive the window counter and the TTL from
\* max(1 second, step truncated to whole seconds), and so return the same
\* TTL under the same window counter.
C25_SameStepNormalization ==
    (fn.op = "dcvv" /\ fn.cur.demo # NotCalled /\ fn.cur.hsm # NotCalled) =>
       LET whole == fn.step \div Second
           s     == IF whole >= 1 THEN whole ELSE 1
       IN  /\ fn.cur.demo.ttl = s - MathMod(fn.unix, s)
           /\ fn.cur.hsm.ttl = s - MathMod(fn.unix, s)
           /\ fn.cur.demo.cvv.extra = Floor(fn.unix, s)
           /\ fn.cur.hsm.cvv.extra = Floor(fn.unix, s)

\* ------------------------------------------------------------- randomDigits
MaxDigitCount == 1     \* count arguments run over -1 .. MaxDigitCount

\* const threshold = 250
threshold == 250

Bytes == 0 .. 255

\* Variant: every byte is accepted.
AcceptsByteAny(b) == TRUE

\* randomDigits keeps byte b
AcceptsByte(b) == b < threshold

\* the digit written for an accepted byte: '0' + (b % 10)
EmitsDigit(b) == DigitChar(b % 10)

\* the value of b before any byte has been read
NoByte == -1

\* randomDigits(count) is entered; count <= 0 returns "" at once.  redrawn
\* says whether a byte has been passed over.
RD_Entry(count) ==
    [op |-> "randomDigits", count |-> count, out |-> << >>, b |-> NoByte,
     redrawn |-> FALSE,
     ret |-> IF count <= 0 THEN "ok" ELSE "running"]

\* the inner loop takes the next byte of the buffer rand.Read filled
RD_Byte(b) ==
    /\ fn.op = "randomDigits"
    /\ fn.ret = "running"
    /\ LET out == IF AcceptsByte(b) THEN Append(fn.out, EmitsDigit(b)) ELSE fn.out
       IN  fn' = [fn EXCEPT !.b = b, !.out = out,
                            !.redrawn = @ \/ ~AcceptsByte(b),
                            !.ret = IF Len(out) < fn.count THEN "running" ELSE "ok"]
    /\ UNCHANGED storeVars

\* rand.Read fails
RD_ReadError ==
    /\ fn.op = "randomDigits"
    /\ fn.ret = "running"
    /\ fn' = [fn EXCEPT !.out = << >>, !.ret = "rand error"]
    /\ UNCHANGED storeVars

\* SpecRandomDigits: one randomDigits call over every stream of bytes.
InitRandomDigits ==
    /\ InitStores
    /\ \E count \in -1 .. MaxDigitCount : fn = RD_Entry(count)

NextRandomDigits ==
    \/ \E b \in Bytes : RD_Byte(b)
    \/ RD_ReadError

SpecRandomDigits == InitRandomDigits /\ [][NextRandomDigits]_vars

\* C28: the sampler keeps a byte b exactly when b < 250 and then writes the
\* digit b mod 10, and it redraws otherwise; each digit 0..9 is written for
\* exactly 25 of the 250 bytes it keeps; a call that succeeds returns exactly
\* count digits (none when count <= 0).
C28_UnbiasedSampler ==
    /\ [](\A d \in 0 .. 9 :
             Cardinality({b \in Bytes : AcceptsByte(b) /\ EmitsDigit(b) = DigitChar(d)}) = 25)
    /\ [](fn.op = "randomDigits" =>
             /\ IsDigits(fn.out)
             /\ fn.ret = "ok" => Len(fn.out) = (IF fn.count > 0 THEN fn.count ELSE 0)
             /\ fn.ret = "running" => Len(fn.out) < fn.count)
    /\ [][(fn.op = "randomDigits" /\ fn' # fn /\ fn'.ret # "rand error") =>
             IF fn'.b < 250
             THEN fn'.out = Append(fn.out, DigitChar(fn'.b % 10))
             ELSE fn'.out = fn.out /\ fn'.ret = "running"]_vars

\* C28 witness: the call has returned its digit after one byte of 250 or
\* more was passed over.
C28_Witness ==
    /\ fn.op = "randomDigits"
    /\ fn.ret = "ok"
    /\ fn.count = 1
    /\ fn.redrawn
    /\ fn.out = <<"9">>
    /\ fn.b = 249

\* ----------------------------------------------------------- PAN generation
MaxFillSeed   == 9     \* the random digits are drawn from streams 0 .. MaxFillSeed
MaxFillStride == 2     \* with strides 0 .. MaxFillStride
MaxTotalLen   == 20    \* totalLen arguments run over 12 .. MaxTotalLen

\* const panLen = 16
panLen == 16

\* What randomDigits(count) returns when the random source is the stream
\* <<seed, stride>>: count digits, none for count <= 0.
RandomDigitsOf(count, seed, stride) ==
    IF count <= 0 THEN << >>
    ELSE [i \in 1 .. count |-> DigitChar((seed + (2 * stride + 1) * i) % 10)]

\* copy(b[fill-len(seq):], seq)
OverrideTail(b, seq) ==
    [i \in 1 .. Len(b) |->
        IF i > Len(b) - Len(seq) THEN seq[i - (Len(b) - Len(seq))] ELSE b[i]]

\* what the generators return: (string, error)
PanRet(pan, err) == [pan |-> pan, err |-> err]

\* the part GeneratePAN and GeneratePANWithLength have in common, from
\* the computation of fill on
GenerateBody(bin, fill, sequence, seed, stride) ==
    LET seq == TrimSpace(sequence)
    IN  IF fill <= 0 THEN PanRet(<< >>, "bin too long")
        ELSE IF seq # << >> /\ ~IsDigits(seq) THEN PanRet(<< >>, "sequence must be numeric")
        ELSE IF seq # << >> /\ Len(seq) > fill THEN PanRet(<< >>, "sequence length exceeds fill")
        ELSE LET body == bin \o OverrideTail(RandomDigitsOf(fill, seed, stride), seq)
             IN  PanRet(body \o <<luhnCheckDigit(body)>>, ErrNone)

\* cardgen.GeneratePAN on the random stream <<seed, stride>>
GeneratePAN(bin, sequence, seed, stride) ==
    IF ValidateBIN(bin) # ErrNone THEN PanRet(<< >>, ValidateBIN(bin))
    ELSE GenerateBody(bin, panLen - 1 - Len(bin), sequence, seed, stride)

\* cardgen.GeneratePANWithLength on the random stream <<seed, stride>>
GeneratePANWithLength(bin, totalLen, sequence, seed, stride) ==
    IF ValidateBIN(bin) # ErrNone THEN PanRet(<< >>, ValidateBIN(bin))
    ELSE IF totalLen < 13 \/ totalLen > 19
    THEN PanRet(<< >>, "total length must be 13..19")
    ELSE GenerateBody(bin, totalLen - 1 - Len(bin), sequence, seed, stride)

\* SpecGenLen: one GeneratePANWithLength call for each choice of arguments and
\* of random digits.
GenBins ==
    {DigitString(n) : n \in {0, 5, 6, 7, 8, 9, 10}}
       \cup {[DigitString(6) EXCEPT ![2] = "x"]}
GenSequences ==
    {<< >>, <<"1", "2">>, <<" ", "1", "2">>, <<"1", "2", "\t">>, <<" ">>,
     <<"1", "a">>, <<"1", " ", "2">>, DigitString(3), DigitString(10)}

InitGenLen ==
    /\ InitStores
    /\ \E bin \in GenBins, totalLen \in 12 .. MaxTotalLen, sequence \in GenSequences :
          fn = [op |-> "GeneratePANWithLength", bin |-> bin, totalLen |-> totalLen,
                sequence |-> sequence, called |-> FALSE, ret |-> PanRet(<< >>, ErrNone)]

Call_GeneratePANWithLength(seed, stride) ==
    /\ fn.op = "GeneratePANWithLength"
    /\ ~fn.called
    /\ fn' = [fn EXCEPT !.called = TRUE,
                        !.ret = GeneratePANWithLength(fn.bin, fn.totalLen, fn.sequence,
                                                      seed, stride)]
    /\ UNCHANGED storeVars

NextGenLen ==
    \E seed \in 0 .. MaxFillSeed, stride \in 0 .. MaxFillStride :
       Call_GeneratePANWithLength(seed, stride)

SpecGenLen == InitGenLen /\ [][NextGenLen]_vars

\* The Luhn sum of a digit string, from the rightmost digit leftwards, the
\* digits at odd distance from it doubled (and reduced by 9 above 9).
RECURSIVE LuhnTotal(_, _)
LuhnTotal(pan, k) ==
    IF k = Len(pan) THEN 0
    ELSE LET d == DigitVal(pan[Len(pan) - k])
             w == IF k % 2 = 1 THEN ((2 * d) \div 10) + ((2 * d) % 10) ELSE d
         IN  w + LuhnTotal(pan, k + 1)

\* pan is a digit string whose last digit is the Luhn check digit of the rest
LuhnValid(pan) == IsDigits(pan) /\ Len(pan) >= 1 /\ LuhnTotal(pan, 0) % 10 = 0

\* GeneratePANWithLength was called, with seq standing for its sequence
\* argument: it succeeded exactly on good arguments and its result is
\* well-formed.
GenLenContract(seq) ==
    LET fill == fn.totalLen - 1 - Len(fn.bin)
        good == /\ IsDigits(fn.bin) /\ Len(fn.bin) \in {6, 8, 9}
                /\ fn.totalLen \in 13 .. 19
                /\ fill > 0
                /\ seq = << >> \/ (IsDigits(seq) /\ Len(seq) <= fill)
        pan  == fn.ret.pan
    IN  /\ fn.ret.err = ErrNone <=> good
        /\ fn.ret.err = ErrNone =>
              /\ Len(pan) = fn.totalLen
              /\ IsDigits(pan)
              /\ SubSeq(pan, 1, Len(fn.bin)) = fn.bin
              /\ SubSeq(pan, Len(pan) - Len(seq), Len(pan) - 1) = seq
              /\ LuhnValid(pan)
        /\ fn.ret.err # ErrNone => pan = << >>

\* C27 as stated: GeneratePANWithLength succeeds exactly when bin is 6, 8 or
\* 9 digits, totalLen is in 13..19 with room for fill, and sequence is empty
\* or numeric and no longer than the fill; the result then has totalLen
\* digits, starts with bin, carries sequence just before the check digit and
\* ends in the Luhn check digit.
C27_Original ==
    (fn.op = "GeneratePANWithLength" /\ fn.called) => GenLenContract(fn.sequence)

\* C27: the same with sequence taken after its leading and trailing white
\* space has been trimmed: GeneratePANWithLength succeeds exactly when bin is
\* 6, 8 or 9 digits, totalLen is in 13..19 with room for fill, and the
\* trimmed sequence is empty or numeric and no longer than the fill; the
\* result then has totalLen digits, starts with bin, carries the trimmed
\* sequence just before the check digit and ends in the Luhn check digit.
C27_GeneratePANWithLength ==
    (fn.op = "GeneratePANWithLength" /\ fn.called) =>
        GenLenContract(TrimSpace(fn.sequence))

\* C27 witness: a 19-digit PAN on a 9-digit BIN was generated with a
\* sequence that came padded with a blank.
C27_Witness ==
    /\ fn.op = "GeneratePANWithLength"
    /\ fn.called
    /\ fn.ret.err = ErrNone
    /\ Len(fn.bin) = 9
    /\ fn.sequence = <<" ", "1", "2">>
    /\ Len(fn.ret.pan) = 19
    /\ SubSeq(fn.ret.pan, 17, 18) = <<"1", "2">>

\* SpecLuhn: GeneratePAN is called on a valid BIN, the PAN it returns is
\* validated, and so is the PAN with one digit before the check digit
\* replaced.
LuhnBins == {DigitString(6), DigitString(8), DigitString(9)}

NotValidated == "not validated"

InitLuhn ==
    /\ InitStores
    /\ \E bin \in LuhnBins :
          fn = [op |-> "GeneratePAN", bin |-> bin, called |-> FALSE,
                ret |-> PanRet(<< >>, ErrNone), panErr |-> NotValidated,
                flipped |-> << >>, flipErr |-> NotValidated]

Call_GeneratePAN(seed, stride) ==
    /\ fn.op = "GeneratePAN"
    /\ ~fn.called
    /\ fn' = [fn EXCEPT !.called = TRUE,
                        !.ret = GeneratePAN(fn.bin, << >>, seed, stride)]
    /\ UNCHANGED storeVars

\* ValidatePAN on the generated PAN
Call_ValidatePAN ==
    /\ fn.op = "GeneratePAN"
    /\ fn.called
    /\ fn.panErr = NotValidated
    /\ fn' = [fn EXCEPT !.panErr = ValidatePAN(fn.ret.pan)]
    /\ UNCHANGED storeVars

\* the digit at pos, not the check digit, is replaced by another digit d
FlipDigit(pos, d) ==
    /\ fn.op = "GeneratePAN"
    /\ fn.called
    /\ fn.ret.err = ErrNone
    /\ fn.flipped = << >>
    /\ pos \in 1 .. Len(fn.ret.pan) - 1
    /\ fn.ret.pan[pos] # DigitChar(d)
    /\ fn' = [fn EXCEPT !.flipped = [fn.ret.pan EXCEPT ![pos] = DigitChar(d)]]
    /\ UNCHANGED storeVars

\* ValidatePAN on the PAN with the replaced digit
Call_ValidateFlipped ==
    /\ fn.op = "GeneratePAN"
    /\ fn.flipped # << >>
    /\ fn.flipErr = NotValidated
    /\ fn' = [fn EXCEPT !.flipErr = ValidatePAN(fn.flipped)]
    /\ UNCHANGED storeVars

NextLuhn ==
    \/ \E seed \in 0 .. MaxFillSeed, stride \in 0 .. MaxFillStride :
          Call_GeneratePAN(seed, stride)
    \/ Call_ValidatePAN
    \/ \E pos \in 1 .. panLen - 1, d \in 0 .. 9 : FlipDigit(pos, d)
    \/ Call_ValidateFlipped

SpecLuhn == InitLuhn /\ [][NextLuhn]_vars

\* C26: for a valid BIN and any fill digits GeneratePAN returns the BIN, the
\* fill and the Luhn check digit of the two, 16 digits in all; ValidatePAN
\* accepts that PAN, and rejects it once any one digit before the check digit
\* has been replaced by a different digit.
C26_LuhnRoundTrip ==
    (fn.op = "GeneratePAN" /\ fn.called) =>
       /\ fn.ret.err = ErrNone
       /\ Len(fn.ret.pan) = 16
       /\ SubSeq(fn.ret.pan, 1, Len(fn.bin)) = fn.bin
       /\ LuhnValid(fn.ret.pan)
       /\ fn.panErr \in {NotValidated, ErrNone}
       /\ fn.flipped # << >> =>
             /\ Cardinality({i \in 1 .. 16 : fn.flipped[i] # fn.ret.pan[i]}) = 1
             /\ fn.flipped[16] = fn.ret.pan[16]
             /\ ~LuhnValid(fn.flipped)
       /\ fn.flipErr \in {NotValidated, "invalid luhn check digit"}

\* C26 witness: a generated PAN was accepted and, with its seventh digit
\* changed from 0 to 9, rejected for its check digit.
C26_Witness ==
    /\ fn.op = "GeneratePAN"
    /\ fn.panErr = ErrNone
    /\ fn.flipErr = "invalid luhn check digit"
    /\ fn.ret.pan[7] = "0"
    /\ fn.flipped[7] = "9"

\* ------------------------------------------------------------------- expiry
\* A time.Time is the instant [day, sec, ns]: days since 2000-01-01 UTC,
\* seconds of that day and nanoseconds of that second.  A *time.Location is
\* a zone without daylight saving, [name, offset from UTC in seconds], or
\* NilLoc.
SecondsPerDay == 86400
NanosPerSecond == 1000000000

NilLoc == [name |-> "nil", offset |-> 0]

UTC == [name |-> "UTC", offset |-> 0]

\* time.FixedZone
FixedZone(name, offset) == [name |-> name, offset |-> offset]

\* var defaultLoc = time.UTC
defaultLoc == UTC

IsLeap(y) == (y % 4 = 0 /\ y % 100 # 0) \/ y % 400 = 0

DaysIn(y, m) ==
    IF m = 2 THEN (IF IsLeap(y) THEN 29 ELSE 28)
    ELSE IF m \in {4, 6, 9, 11} THEN 30 ELSE 31

RECURSIVE DaysBeforeMonth(_, _)
DaysBeforeMonth(y, m) ==
    IF m = 1 THEN 0 ELSE DaysBeforeMonth(y, m - 1) + DaysIn(y, m - 1)

\* days from 2000-01-01 to January 1st of y >= 2000
DaysBeforeYear(y) ==
    LET n == y - 2000
    IN  365 * n + ((n + 3) \div 4) - ((n + 99) \div 100) + ((n + 399) \div 400)

\* carries of seconds into days
NormalizeInstant(day, sec, ns) ==
    [day |-> day + ((sec - (sec % SecondsPerDay)) \div SecondsPerDay),
     sec |-> sec % SecondsPerDay, ns |-> ns]

\* time.Date(y, m, d, 0, 0, sec, ns, loc) for m in 1..13: a month past
\* December is January of the next year
Date(y, m, d, sec, ns, off) ==
    LET yy == IF m > 12 THEN y + 1 ELSE y
        mm == IF m > 12 THEN m - 12 ELSE m
    IN  NormalizeInstant(DaysBeforeYear(yy) + DaysBeforeMonth(yy, mm) + d - 1,
                         sec - off, ns)

\* t.Add(-time.Nanosecond)
SubNanosecond(t) ==
    IF t.ns > 0 THEN [t EXCEPT !.ns = @ - 1]
    ELSE IF t.sec > 0 THEN [t EXCEPT !.sec = @ - 1, !.ns = NanosPerSecond - 1]
    ELSE [day |-> t.day - 1, sec |-> SecondsPerDay - 1, ns |-> NanosPerSecond - 1]

\* Variant: AddDate ignores the days.
AddDaysNone(t, days) == t

\* t.AddDate(0, 0, days): the same clock reading days later in the zone
AddDays(t, days) == [t EXCEPT !.day = @ + days]

Equal(a, b) == a = b

\* Variant: After also holds of equal instants.
AfterOrEqual(a, b) ==
    \/ a.day > b.day
    \/ a.day = b.day /\ a.sec > b.sec
    \/ a.day = b.day /\ a.sec = b.sec /\ a.ns >= b.ns

After(a, b) ==
    \/ a.day > b.day
    \/ a.day = b.day /\ a.sec > b.sec
    \/ a.day = b.day /\ a.sec = b.sec /\ a.ns > b.ns

Before(a, b) == After(b, a)

\* strconv.Atoi of two digits
Atoi2(s) == DigitVal(s[1]) * 10 + DigitVal(s[2])

NoInstant == [day |-> 0, sec |-> 0, ns |-> 0]

\* expiry.ParseYYMMEndOfMonth returns (time.Time, error)
ParseYYMMEndOfMonth(yymm, loc) ==
    IF ValidateYYMM(yymm) # ErrNone
    THEN [end |-> NoInstant, err |-> ValidateYYMM(yymm)]
    ELSE LET off       == (IF loc = NilLoc THEN defaultLoc ELSE loc).offset
             year      == 2000 + Atoi2(SubSeq(yymm, 1, 2))
             mm        == Atoi2(SubSeq(yymm, 3, 4))
             firstNext == Date(year, mm + 1, 1, 0, 0, off)
         IN  [end |-> SubNanosecond(firstNext), err |-> ErrNone]

\* what IsExpired and ReissueDue return: (bool, error)
BoolRet(val, err) == [val |-> val, err |-> err]

\* expiry.IsExpired
IsExpired(yymm, at, loc) ==
    LET e == ParseYYMMEndOfMonth(yymm, loc)
    IN  IF e.err # ErrNone THEN BoolRet(FALSE, e.err)
        ELSE BoolRet(After(at, e.end), ErrNone)

\* expiry.ReissueDue
ReissueDue(yymm, at, loc, windowDays) ==
    LET e     == ParseYYMMEndOfMonth(yymm, loc)
        start == AddDays(e.end, -windowDays)
    IN  IF e.err # ErrNone THEN BoolRet(FALSE, e.err)
        ELSE BoolRet((Equal(at, start) \/ After(at, start))
                        /\ (Before(at, e.end) \/ Equal(at, e.end)), ErrNone)

\* -------------------------------------- IsExpired and ReissueDue as called
\* The arguments: expiry strings of the years 2024 .. 2000 + MaxExpiryYY, the
\* malformed strings of TestValidateYYMM, zones east and west of UTC and the
\* nil zone, and instants around the ends of months, each given as the caller
\* builds it, time.Date(y, m, d, 0, 0, sec, ns, loc).
MaxExpiryYY == 25
MaxWindowDays == 30

ExpiryMonths == {1, 2, 4, 12}

YYMMString(yy, mm) ==
    <<DigitChar(yy \div 10), DigitChar(yy % 10),
      DigitChar(mm \div 10), DigitChar(mm % 10)>>

ValidExpiries ==
    {YYMMString(yy, mm) : yy \in 24 .. MaxExpiryYY, mm \in ExpiryMonths}

MalformedExpiries ==
    {<<"1", "2", "3">>, <<"1", "2", "a", "4">>, <<"3", "0", "1", "3">>,
     <<"0", "0", "0", "0">>}

ExpiryInputs == ValidExpiries \cup MalformedExpiries

ExpiryLocs == {NilLoc, FixedZone("east", 28800), FixedZone("west", -18000)}

AtClocks ==
    {<<0, 0>>, <<43200, 0>>, <<SecondsPerDay - 1, NanosPerSecond - 2>>,
     <<SecondsPerDay - 1, NanosPerSecond - 1>>}

AtInputs ==
    {[y |-> y, m |-> m, d |-> d, sec |-> c[1], ns |-> c[2]] :
        y \in 2024 .. (2000 + MaxExpiryYY + 1),
        m \in {1, 2, 3, 4, 5, 12},
        d \in {1, 27, 28, 29, 30, 31},
        c \in AtClocks}

WindowInputs == {-1, 0, 1, MaxWindowDays}

\* time.Date(at.y, at.m, at.d, 0, 0, at.sec, at.ns, loc)
AtInstant(at, loc) ==
    Date(at.y, at.m, at.d, at.sec, at.ns,
         (IF loc = NilLoc THEN defaultLoc ELSE loc).offset)

NoBoolRet == [val |-> FALSE, err |-> "not called"]

InitExpired ==
    /\ InitStores
    /\ \E yymm \in ExpiryInputs, loc \in ExpiryLocs, at \in AtInputs :
          /\ at.d <= DaysIn(at.y, at.m)
          /\ fn = [op |-> "IsExpired", yymm |-> yymm, loc |-> loc, at |-> at,
                   called |-> FALSE, ret |-> NoBoolRet]

Call_IsExpired ==
    /\ fn.op = "IsExpired"
    /\ ~fn.called
    /\ fn' = [fn EXCEPT !.called = TRUE,
                        !.ret = IsExpired(fn.yymm, AtInstant(fn.at, fn.loc), fn.loc)]
    /\ UNCHANGED storeVars

NextExpired == Call_IsExpired

SpecExpired == InitExpired /\ [][NextExpired]_vars

InitReissue ==
    /\ InitStores
    /\ \E yymm \in ExpiryInputs, loc \in ExpiryLocs, at \in AtInputs,
          windowDays \in WindowInputs :
          /\ at.d <= DaysIn(at.y, at.m)
          /\ fn = [op |-> "ReissueDue", yymm |-> yymm, loc |-> loc, at |-> at,
                   windowDays |-> windowDays, called |-> FALSE, ret |-> NoBoolRet]

Call_ReissueDue ==
    /\ fn.op = "ReissueDue"
    /\ ~fn.called
    /\ fn' = [fn EXCEPT !.called = TRUE,
                        !.ret = ReissueDue(fn.yymm, AtInstant(fn.at, fn.loc),
                                           fn.loc, fn.windowDays)]
    /\ UNCHANGED storeVars

NextReissue == Call_ReissueDue

SpecReissue == InitReissue /\ [][NextReissue]_vars

\* The calendar as the claims state it: the last day of a month, and civil
\* readings <<year, month, day, second of day, nanosecond>> in one zone,
\* ordered as a clock on the wall orders them.
LastDayOf(y, m) ==
    IF m = 2
    THEN (IF y % 4 = 0 /\ (y % 100 # 0 \/ y % 400 = 0) THEN 29 ELSE 28)
    ELSE <<31, 0, 31, 30, 31, 30, 31, 31, 30, 31, 30, 31>>[m]

RECURSIVE CivilLess(_, _)
CivilLess(a, b) ==
    /\ a # <<>>
    /\ \/ Head(a) < Head(b)
       \/ Head(a) = Head(b) /\ CivilLess(Tail(a), Tail(b))

CivilAt == <<fn.at.y, fn.at.m, fn.at.d, fn.at.sec, fn.at.ns>>

WellFormedExpiry ==
    /\ Len(fn.yymm) = 4
    /\ \A i \in 1 .. 4 : fn.yymm[i] \in DigitChars
    /\ DigitVal(fn.yymm[3]) * 10 + DigitVal(fn.yymm[4]) \in 1 .. 12

ExpiryYear == 2000 + DigitVal(fn.yymm[1]) * 10 + DigitVal(fn.yymm[2])

ExpiryMonth == DigitVal(fn.yymm[3]) * 10 + DigitVal(fn.yymm[4])

\* the last nanosecond of the last day of the expiry month
CivilEnd ==
    <<ExpiryYear, ExpiryMonth, LastDayOf(ExpiryYear, ExpiryMonth),
      SecondsPerDay - 1, NanosPerSecond - 1>>

\* the day that is n >= 0 days before day d of month m of year y
RECURSIVE DaysEarlier(_, _, _, _)
DaysEarlier(y, m, d, n) ==
    IF n = 0 THEN <<y, m, d>>
    ELSE IF d > 1 THEN DaysEarlier(y, m, d - 1, n - 1)
    ELSE IF m > 1 THEN DaysEarlier(y, m - 1, LastDayOf(y, m - 1), n - 1)
    ELSE DaysEarlier(y - 1, 12, 31, n - 1)

CivilWindowStart ==
    DaysEarlier(CivilEnd[1], CivilEnd[2], CivilEnd[3], fn.windowDays)
        \o <<SecondsPerDay - 1, NanosPerSecond - 1>>

\* C29: IsExpired(yymm, at, loc) answers an error for a malformed yymm, and
\* otherwise false for every instant at or before the last nanosecond of the
\* last day of month MM of year 2000+YY in loc (the 28th or 29th for
\* February) and true for every instant after it.
C29_IsExpired ==
    (fn.op = "IsExpired" /\ fn.called) =>
        IF WellFormedExpiry
        THEN /\ fn.ret.err = ErrNone
             /\ fn.ret.val = CivilLess(CivilEnd, CivilAt)
        ELSE fn.ret.err # ErrNone /\ fn.ret.val = FALSE

\* the last nanosecond of 29 February 2024, eight hours east of UTC
C29_Witness ==
    /\ fn.op = "IsExpired" /\ fn.called
    /\ fn.yymm = <<"2", "4", "0", "2">>
    /\ fn.loc.offset = 28800
    /\ fn.at = [y |-> 2024, m |-> 2, d |-> 29, sec |-> 86399, ns |-> 999999999]
    /\ fn.ret = [val |-> FALSE, err |-> ErrNone]

\* C30: ReissueDue(yymm, at, loc, windowDays) answers true exactly when at
\* lies in the closed interval from windowDays days before the end-of-month
\* instant to that instant: true at both ends, false a nanosecond after the
\* end and false before the start.
C30_ReissueDue ==
    (fn.op = "ReissueDue" /\ fn.called) =>
        IF WellFormedExpiry
        THEN /\ fn.ret.err = ErrNone
             /\ fn.ret.val =
                   (/\ fn.windowDays >= 0
                    /\ ~CivilLess(CivilAt, CivilWindowStart)
                    /\ ~CivilLess(CivilEnd, CivilAt))
        ELSE fn.ret.err # ErrNone /\ fn.ret.val = FALSE

\* thirty days before the end of February 2024 is 30 January: due at the
\* first instant of the window
C30_Witness ==
    /\ fn.op = "ReissueDue" /\ fn.called
    /\ fn.yymm = <<"2", "4", "0", "2">>
    /\ fn.windowDays = 30
    /\ fn.loc.offset = -18000
    /\ fn.at = [y |-> 2024, m |-> 1, d |-> 30, sec |-> 86399, ns |-> 999999999]
    /\ fn.ret = [val |-> TRUE, err |-> ErrNone]

\* ------------------------------------------------- expiry formats and parser
\* t.In(loc), read as a calendar date and clock: the year, month and day of
\* the instant t on the wall clock of the zone loc
InLoc(t, loc) ==
    LET w   == NormalizeInstant(t.day, t.sec + loc.offset, t.ns)
        y   == CHOOSE yy \in 2000 .. 2199 :
                  DaysBeforeYear(yy) <= w.day /\ w.day < DaysBeforeYear(yy + 1)
        doy == w.day - DaysBeforeYear(y)
        m   == CHOOSE mm \in 1 .. 12 :
                  /\ DaysBeforeMonth(y, mm) <= doy
                  /\ doy < DaysBeforeMonth(y, mm) + DaysIn(y, mm)
    IN  [y |-> y, m |-> m, d |-> doy - DaysBeforeMonth(y, m) + 1,
         sec |-> w.sec, ns |-> w.ns]

\* fmt.Sprintf("%02d", n) for -99 <= n <= 99: the sign counts in the width
Sprintf02d(n) ==
    IF n >= 10 THEN <<DigitChar(n \div 10), DigitChar(n % 10)>>
    ELSE IF n >= 0 THEN <<"0", DigitChar(n)>>
    ELSE IF n > -10 THEN <<"-", DigitChar(-n)>>
    ELSE <<"-", DigitChar((-n) \div 10), DigitChar((-n) % 10)>>

\* y := (t.Year() + years) % 100 with t := issue.In(defaultLoc)
ExpiryYY(issued, years) == GoMod(InLoc(issued, defaultLoc).y + years, 100)

\* m := int(t.Month())
ExpiryMM(issued) == InLoc(issued, defaultLoc).m

\* expiry.YYMM
YYMM(issued, years) == Sprintf02d(ExpiryYY(issued, years)) \o Sprintf02d(ExpiryMM(issued))

\* expiry.MMYY
MMYY(issued, years) == Sprintf02d(ExpiryMM(issued)) \o Sprintf02d(ExpiryYY(issued, years))

\* expiry.CardFace
CardFace(issued, years) ==
    Sprintf02d(ExpiryMM(issued)) \o <<"/">> \o Sprintf02d(ExpiryYY(issued, years))

\* strings.ReplaceAll(s, "/", "")
RECURSIVE DropSlashes(_)
DropSlashes(s) ==
    IF s = <<>> THEN <<>>
    ELSE IF Head(s) = "/" THEN DropSlashes(Tail(s))
    ELSE <<Head(s)>> \o DropSlashes(Tail(s))

ErrCardFaceShape  == "card face must be MM/YY or MMYY"
ErrCardFaceDigits == "card face must be digits"
ErrCardFaceMonth  == "month must be 01..12"

\* what ParseCardFace returns: (string, error)
StrRet(val, err) == [val |-> val, err |-> err]

\* Variant: the four digits are returned in the order they were given.
ParseCardFaceNoSwap(in) ==
    LET s == DropSlashes(TrimSpace(in))
    IN  IF Len(s) # 4 THEN StrRet(<<>>, ErrCardFaceShape)
        ELSE IF ~IsDigits(s) THEN StrRet(<<>>, ErrCardFaceDigits)
        ELSE IF Atoi2(SubSeq(s, 1, 2)) \notin 1 .. 12 THEN StrRet(<<>>, ErrCardFaceMonth)
        ELSE StrRet(s, ErrNone)

\* expiry.ParseCardFace
ParseCardFace(in) ==
    LET s  == DropSlashes(TrimSpace(in))
        mm == Atoi2(SubSeq(s, 1, 2))
    IN  IF Len(s) # 4 THEN StrRet(<<>>, ErrCardFaceShape)
        ELSE IF \E i \in 1 .. 4 : s[i] \notin DigitChars
             THEN StrRet(<<>>, ErrCardFaceDigits)
        ELSE IF mm < 1 \/ mm > 12 THEN StrRet(<<>>, ErrCardFaceMonth)
        ELSE StrRet(SubSeq(s, 3, 4) \o Sprintf02d(mm), ErrNone)

\* ------------------------------------------------ the formats as called
\* Issue dates around the ends of years and of February, read in UTC and in
\* zones east and west of it, with validity years -1 .. MaxValidityYears and
\* two that carry the year past 2099.
MaxValidityYears == 5

IssueLocs == {UTC, FixedZone("east", 28800), FixedZone("west", -18000)}

IssueInputs ==
    {[y |-> y, m |-> m, d |-> d, sec |-> sec, ns |-> 0] :
        y \in {2028, 2029}, m \in {1, 2, 12}, d \in {1, 15, 28, 29, 31},
        sec \in {0, 82800}}

YearsInputs == (-1 .. MaxValidityYears) \cup {71, 72}

NotRendered == << >>

NoStrRet == [val |-> << >>, err |-> "not called"]

InitFormats ==
    /\ InitStores
    /\ \E at \in IssueInputs, loc \in IssueLocs, years \in YearsInputs :
          /\ at.d <= DaysIn(at.y, at.m)
          /\ fn = [op |-> "formats", at |-> at, loc |-> loc, years |-> years,
                   yymm |-> NotRendered, mmyy |-> NotRendered,
                   face |-> NotRendered, fromFace |-> NoStrRet,
                   fromMMYY |-> NoStrRet]

\* the issue date as the caller built it
IssueInstant == AtInstant(fn.at, fn.loc)

Call_YYMM ==
    /\ fn.op = "formats"
    /\ fn.yymm = NotRendered
    /\ fn' = [fn EXCEPT !.yymm = YYMM(IssueInstant, fn.years)]
    /\ UNCHANGED storeVars

Call_MMYY ==
    /\ fn.op = "formats"
    /\ fn.mmyy = NotRendered
    /\ fn' = [fn EXCEPT !.mmyy = MMYY(IssueInstant, fn.years)]
    /\ UNCHANGED storeVars

Call_CardFace ==
    /\ fn.op = "formats"
    /\ fn.face = NotRendered
    /\ fn' = [fn EXCEPT !.face = CardFace(IssueInstant, fn.years)]
    /\ UNCHANGED storeVars

\* ParseCardFace(CardFace(issue, years))
Call_ParseCardFace_Face ==
    /\ fn.op = "formats"
    /\ fn.face # NotRendered
    /\ fn.fromFace = NoStrRet
    /\ fn' = [fn EXCEPT !.fromFace = ParseCardFace(fn.face)]
    /\ UNCHANGED storeVars

\* ParseCardFace(MMYY(issue, years))
Call_ParseCardFace_MMYY ==
    /\ fn.op = "formats"
    /\ fn.mmyy # NotRendered
    /\ fn.fromMMYY = NoStrRet
    /\ fn' = [fn EXCEPT !.fromMMYY = ParseCardFace(fn.mmyy)]
    /\ UNCHANGED storeVars

NextFormats ==
    \/ Call_YYMM
    \/ Call_MMYY
    \/ Call_CardFace
    \/ Call_ParseCardFace_Face
    \/ Call_ParseCardFace_MMYY

SpecFormats == InitFormats /\ [][NextFormats]_vars

\* the day after day d of month m of year y
DayAfter(y, m, d) ==
    IF d < LastDayOf(y, m) THEN <<y, m, d + 1>>
    ELSE IF m < 12 THEN <<y, m + 1, 1>>
    ELSE <<y + 1, 1, 1>>

\* the issue date on the UTC calendar
IssueDateUTC ==
    LET s == fn.at.sec - fn.loc.offset
    IN  IF s < 0 THEN DaysEarlier(fn.at.y, fn.at.m, fn.at.d, 1)
        ELSE IF s >= SecondsPerDay THEN DayAfter(fn.at.y, fn.at.m, fn.at.d)
        ELSE <<fn.at.y, fn.at.m, fn.at.d>>

TwoDigits(n) == <<DigitChar(n \div 10), DigitChar(n % 10)>>

ExpectedYY == TwoDigits((IssueDateUTC[1] + fn.years) % 100)

ExpectedMM == TwoDigits(IssueDateUTC[2])

\* C31: YYMM, MMYY and CardFace render the same two components, yy =
\* (issueYear + years) mod 100 and mm = the issue month, each as two digits,
\* as yy+mm, mm+yy and mm/yy; ParseCardFace of the CardFace output and of the
\* MMYY output returns the YYMM output.
C31_FormatsAgree ==
    fn.op = "formats" =>
        /\ fn.yymm # NotRendered => fn.yymm = ExpectedYY \o ExpectedMM
        /\ fn.mmyy # NotRendered => fn.mmyy = ExpectedMM \o ExpectedYY
        /\ fn.face # NotRendered => fn.face = ExpectedMM \o <<"/">> \o ExpectedYY
        /\ fn.fromFace # NoStrRet =>
              fn.fromFace = [val |-> ExpectedYY \o ExpectedMM, err |-> ErrNone]
        /\ fn.fromMMYY # NoStrRet =>
              fn.fromMMYY = [val |-> ExpectedYY \o ExpectedMM, err |-> ErrNone]
        /\ (fn.yymm # NotRendered /\ fn.fromFace # NoStrRet) => fn.fromFace.val = fn.yymm
        /\ (fn.yymm # NotRendered /\ fn.fromMMYY # NoStrRet) => fn.fromMMYY.val = fn.yymm

\* issued 2029-12-15 for one year: 3012, 1230 and 12/30, both parsed back
C31_Witness ==
    /\ fn.op = "formats"
    /\ fn.at.y = 2029 /\ fn.at.m = 12 /\ fn.at.d = 15 /\ fn.years = 1
    /\ fn.loc = UTC
    /\ fn.yymm = <<"3", "0", "1", "2">>
    /\ fn.mmyy = <<"1", "2", "3", "0">>
    /\ fn.face = <<"1", "2", "/", "3", "0">>
    /\ fn.fromFace.val = fn.yymm
    /\ fn.fromMMYY.val = fn.yymm

\* ------------------------------------------------- the ledger's bookkeeping
\* SpecPartial: one connection holds, captures in part and in full, reverses
\* and sweeps on an account opened with enough funds for every hold the
\* model can place.
InitFunded ==
    /\ accounts = [a \in Accounts |->
                      [available_balance |-> MaxAuths * MaxAmount, hold_balance |-> 0]]
    /\ auths = << >>
    /\ txns = << >>
    /\ now = 0
    /\ tx = [p \in Procs |-> Idle]
    /\ last = NoCall
    /\ db = TRUE
    /\ cards = << >>
    /\ panIndex = {}
    /\ issue = [p \in Procs |-> IssueIdle]
    /\ fn = NoFn

NextPartial ==
    \/ \E amount \in 1 .. MaxAmount : CAH_NoStan("p1", "card1", amount, "usd", "100001")
    \/ \E id \in AuthIDs, amount \in ReqAmounts : Cap_Lock("p1", id, amount, "usd")
    \/ Cap_Apply("p1")
    \/ \E id \in AuthIDs : Rev_Lock("p1", id)
    \/ Rev_Apply("p1")
    \/ \E batch \in BatchSizes : Swp_Select("p1", batch)
    \/ Swp_Apply("p1")
    \/ Tick
    \/ \E i \in AuthIDs, t \in 0 .. MaxTime : SetHoldExpiry(i, t)

SpecPartial == InitFunded /\ [][NextPartial]_vars

\* the sum of the amounts of the rows ns of issuer.transactions
RECURSIVE SumTxns(_)
SumTxns(ns) ==
    IF ns = {} THEN 0
    ELSE LET n == CHOOSE k \in ns : TRUE
         IN  txns[n].amount + SumTxns(ns \ {n})

CapturedOnAccount(a) ==
    SumTxns({n \in DOMAIN txns : txns[n].status = "CAPTURED" /\ txns[n].account = a})

CapturedAgainst(i) ==
    SumTxns({n \in DOMAIN txns : txns[n].status = "CAPTURED" /\ txns[n].auth = i})

\* what is still held for the AUTHORIZED authorizations of account a
RECURSIVE OpenRemainder(_, _)
OpenRemainder(ids, a) ==
    IF ids = {} THEN 0
    ELSE LET i == CHOOSE j \in ids : TRUE
         IN  (IF auths[i].status = "AUTHORIZED" /\ auths[i].account = a
              THEN auths[i].amount - CapturedAgainst(i) ELSE 0)
               + OpenRemainder(ids \ {i}, a)

\* C32: in every reachable state of the DB-backed ledger, for every account,
\* available_balance + hold_balance + the amounts of its CAPTURED
\* transactions equals its opening balance.
C32_MoneyConserved ==
    \A a \in Accounts :
        accounts[a].available_balance + accounts[a].hold_balance
            + CapturedOnAccount(a) = InitBalance

\* C33: the CAPTURED transactions that reference an authorization never add
\* up to more than its authorized amount.
C33_CapturesWithinAuthorized ==
    \A i \in DOMAIN auths : CapturedAgainst(i) <= auths[i].amount

\* C34: every account's hold_balance equals the sum, over its AUTHORIZED
\* authorizations, of the authorized amount less what was captured against it.
C34_HoldIsOpenRemainder ==
    \A a \in Accounts : accounts[a].hold_balance = OpenRemainder(DOMAIN auths, a)

\* SpecRelease: connection p1 places up to two holds of 1 or 2 and captures
\* (in full, or 1); connection p2 is the sweeper; the clock
\* advances and open holds are stamped with an expiry, 0 or the latest
\* instant, by a writer outside the repository.
NextRelease ==
    \/ /\ Len(auths) < 2
       /\ \E amount \in {1, 2} : CAH_NoStan("p1", "card1", amount, "usd", "100001")
    \/ \E id \in AuthIDs, amount \in {0, 1} : Cap_Lock("p1", id, amount, "usd")
    \/ Cap_Apply("p1")
    \/ \E batch \in BatchSizes : Swp_Select("p2", batch)
    \/ Swp_Apply("p2")
    \/ Tick
    \/ \E i \in AuthIDs, t \in {0, MaxTime} : SetHoldExpiry(i, t)

SpecRelease == Init /\ [][NextRelease]_vars

\* SpecReleaseFair: time advances, the sweeper runs again and again and an
\* open transaction runs to its end (statement_timeout bounds every wait).
\* Nothing obliges the outside writer to stamp a hold.
SpecReleaseFair ==
    /\ SpecRelease
    /\ WF_vars(Tick)
    /\ WF_vars(\E batch \in BatchSizes : Swp_Select("p2", batch))
    /\ WF_vars(Swp_Apply("p2"))
    /\ WF_vars(Cap_Apply("p1"))

\* authorization i is no longer an untouched open hold
Settled(i) ==
    i \in DOMAIN auths /\ (auths[i].status # "AUTHORIZED" \/ CapturedAgainst(i) > 0)

C36_ReplayOfFinalized ==
    [][(Returned("CreateAuthAndHold") /\ last'.stan # NoStan) =>
        \A i \in RowsWithKey(last'.card, last'.stan) :
            (/\ auths[i].status \in {"CAPTURED", "REVERSED"}
             /\ auths[i].amount = last'.amount
             /\ ToUpper(auths[i].currency) = ToUpper(last'.cur)) =>
                /\ last'.err = ErrNone
                /\ last'.dup
                /\ last'.appr = auths[i].approval_code
                /\ last'.authc = auths[i].authorization_code
                /\ NothingPersisted
                /\ auths'[i].status = auths[i].status
                /\ AuthorizeResponse(last') =
                      [ApprovalCode |-> auths[i].approval_code,
                       AuthorizationCode |-> auths[i].authorization_code,
                       err |-> ErrNone]
    ]_vars

\* a replay of a captured authorization, made with a fresh code and the
\* currency in the other case, returned the stored code; nothing is held
C36_Witness ==
    /\ last.op = "CreateAuthAndHold"
    /\ last.err = ErrNone
    /\ last.dup
    /\ last.given # last.authc
    /\ last.cur = "usd"
    /\ \E i \in RowsWithKey(last.card, last.stan) :
          /\ auths[i].status = "CAPTURED"
          /\ auths[i].currency = "USD"
          /\ auths[i].authorization_code = last.authc
          /\ accounts[auths[i].account].hold_balance = 0
          /\ accounts[auths[i].account].available_balance = InitBalance - auths[i].amount

\* SpecDecline: two connections authorize against acc1 with one (card, STAN)
\* and without a STAN; amounts run past the opening balance and currencies
\* vary, so that attempts are declined and the key is tried again.
DeclineCurrencies == {"usd", "eur"}

NextDecline ==
    \E p \in Procs :
       \/ \E amount \in 1 .. MaxAmount + 1, cur \in DeclineCurrencies :
             \/ CAH_Wait(p, "card1", 7, amount, cur, "100001")
             \/ CAH_Insert(p, "card1", 7, amount, cur, "100001")
       \/ CAH_NoStan(p, "card1", 1, "usd", "100002")
       \/ CAH_InsertAfterWait(p)
       \/ CAH_Update(p)

SpecDecline == Init /\ [][NextDecline]_vars

\* C37: a CreateAuthAndHold with a STAN that returns while no committed row
\* carries its (card_id, STAN) is either declined for insufficient funds and
\* then leaves no row behind, so that the key stays free, or, when the funds
\* suffice, is a fresh authorization: duplicate=false, one row added with
\* the amount and currency of this call, the amount moved once from
\* available_balance to hold_balance.
C37_DeclineKeepsStanFree ==
    [][(/\ Returned("CreateAuthAndHold")
        /\ last'.stan # NoStan
        /\ last'.amount > 0
        /\ RowsWithKey(last'.card, last'.stan) = {}) =>
          LET a == CardAccount(last'.card)
          IN  IF accounts[a].available_balance < last'.amount
              THEN /\ last'.err = ErrInsufficientFunds
                   /\ NothingPersisted
                   /\ \A i \in DOMAIN auths' :
                         ~(auths'[i].card = last'.card /\ auths'[i].stan = last'.stan)
              ELSE /\ last'.err = ErrNone
                   /\ ~last'.dup
                   /\ Len(auths') = Len(auths) + 1
                   /\ SubSeq(auths', 1, Len(auths)) = auths
                   /\ auths'[Len(auths')].card = last'.card
                   /\ auths'[Len(auths')].stan = last'.stan
                   /\ auths'[Len(auths')].amount = last'.amount
                   /\ auths'[Len(auths')].currency = ToUpper(last'.cur)
                   /\ auths'[Len(auths')].status = "AUTHORIZED"
                   /\ accounts'[a].available_balance =
                         accounts[a].available_balance - last'.amount
                   /\ accounts'[a].hold_balance =
                         accounts[a].hold_balance + last'.amount
                   /\ \A b \in Accounts \ {a} : accounts'[b] = accounts[b]
    ]_vars

\* a call waited for an attempt with its (card, STAN) that was then declined
\* and rolled back, and went through as a fresh authorization in another
\* currency: the only row is its own and the amount was moved once
C37_Witness ==
    /\ last.op = "CreateAuthAndHold"
    /\ last.err = ErrNone
    /\ ~last.dup
    /\ last.waited
    /\ last.stan = 7
    /\ last.cur = "eur"
    /\ Len(auths) = 1
    /\ auths[1].stan = 7
    /\ auths[1].currency = "EUR"
    /\ accounts["acc1"].available_balance = InitBalance - last.amount
    /\ accounts["acc1"].hold_balance = last.amount

\* ------------------------------------------- AuthorizeRequest, in-memory
MaxTxns == 3      \* cap on the entries of Repository.Transactions

\* Account.Hold: the hold moves the amount from available to hold; with less
\* available than the amount it fails with ErrInsufficientFunds and the
\* account stays as it was.
Hold(acc, amount) ==
    IF acc.available_balance < amount
    THEN [err |-> ErrInsufficientFunds, acc |-> acc]
    ELSE [err |-> ErrNone, acc |-> HoldApplied(acc, amount)]

\* Repository.CreateTransaction with db == nil: the pointer is appended to
\* Repository.Transactions.
CreateTransaction(list, t) == Append(list, t)

\* Repository.ListTransactions with db == nil: the entries of the account,
\* in insertion order, whatever their status.
ListTransactions(a) == SelectSeq(txns, LAMBDA t : t.account = a)

\* models.Transaction as AuthorizeRequest builds it: no approval code, no
\* authorization code and no status yet.
NewTransaction(card, amount, cur) ==
    [account |-> CardAccount(card), card |-> card, amount |-> amount,
     currency |-> cur, approval_code |-> "", authorization_code |-> "",
     status |-> ""]

MemCards == Cards \cup {"unknown"}

\* Service.AuthorizeRequest with Repository.db == nil, for a card the
\* repository knows: GetAccount, CreateTransaction, account.Hold, and on
\* success the codes and status written through the stored pointer.
AuthorizeRequest_InMemory(card, amount, cur, authc) ==
    /\ ~db
    /\ card \in Cards
    /\ Len(txns) < MaxTxns
    /\ LET a == CardAccount(card)
           t == NewTransaction(card, amount, cur)
           h == Hold(accounts[a], amount)
           r == [Ret("AuthorizeRequest", ErrNone) EXCEPT
                    !.card = card, !.amount = amount, !.cur = cur, !.given = authc]
       IN  IF h.err = ErrInsufficientFunds
           THEN /\ txns' = CreateTransaction(txns, t)
                /\ UNCHANGED accounts
                /\ last' = [r EXCEPT !.appr = ApprovalCodeInsufficientFunds]
           ELSE /\ txns' = CreateTransaction(txns,
                              [t EXCEPT !.approval_code = ApprovalCodeApproved,
                                        !.authorization_code = authc,
                                        !.status = "AUTHORIZED"])
                /\ accounts' = [accounts EXCEPT ![a] = h.acc]
                /\ last' = [r EXCEPT !.appr = ApprovalCodeApproved, !.authc = authc]
    /\ UNCHANGED <<auths, now, tx>>
    /\ UNCHANGED <<cardVars, fn>>

\* Service.AuthorizeRequest with Repository.db == nil, for a card the
\* repository does not know: the invalid-card decline, before any write.
AuthorizeRequest_InMemoryNoCard(card) ==
    /\ ~db
    /\ card \notin Cards
    /\ last' = [Ret("AuthorizeRequest", ErrNone) EXCEPT
                   !.card = card, !.appr = ApprovalCodeInvalidCard]
    /\ UNCHANGED <<accounts, auths, txns, now, tx>>
    /\ UNCHANGED <<cardVars, fn>>

\* Service.ListTransactions: n entries are returned.
Call_ListTransactions(a) ==
    /\ ~db
    /\ last' = [Ret("ListTransactions", ErrNone) EXCEPT
                   !.card = a, !.n = Len(ListTransactions(a))]
    /\ UNCHANGED <<accounts, auths, txns, now, tx>>
    /\ UNCHANGED <<cardVars, fn>>

\* SpecMemory: a repository without a database; requests for known and
\* unknown cards with amounts up to one more than the opening balance.
InitMemory ==
    /\ accounts = [a \in Accounts |->
                      [available_balance |-> InitBalance, hold_balance |-> 0]]
    /\ auths = << >>
    /\ txns = << >>
    /\ now = 0
    /\ tx = [p \in Procs |-> Idle]
    /\ last = NoCall
    /\ db = FALSE
    /\ cards = << >>
    /\ panIndex = {}
    /\ issue = [p \in Procs |-> IssueIdle]
    /\ fn = NoFn

NextMemory ==
    \/ \E card \in MemCards, amount \in 1 .. InitBalance + 1, cur \in DeclineCurrencies :
          AuthorizeRequest_InMemory(card, amount, cur, "100001")
    \/ \E card \in MemCards : AuthorizeRequest_InMemoryNoCard(card)
    \/ \E a \in Accounts : Call_ListTransactions(a)

SpecMemory == InitMemory /\ [][NextMemory]_vars

\* C38: an in-memory AuthorizeRequest that answers with the
\* insufficient-funds decline leaves the transaction list and the balances
\* as they were, and every transaction in the list carries the approved
\* code, so ListTransactions returns approved authorizations only.
C38_DeclineLeavesNoTransaction ==
    /\ [][(Returned("AuthorizeRequest")
             /\ last'.appr = ApprovalCodeInsufficientFunds) =>
            (txns' = txns /\ accounts' = accounts)]_vars
    /\ [](\A a \in Accounts : \A i \in DOMAIN ListTransactions(a) :
            ListTransactions(a)[i].approval_code = ApprovalCodeApproved)

\* C39 as stated: CreateAuthAndHold changes the balances of an account only
\* for a request in the currency of that account.
C39_Original ==
    [][Returned("CreateAuthAndHold") =>
        \A a \in Accounts :
            accounts'[a] # accounts[a] => ToUpper(last'.cur) = AccountCurrency(a)
    ]_vars

\* C39: CreateAuthAndHold does not look at the currency of the account.  A
\* call that is not a replay places the hold exactly when available_balance
\* covers the amount, in whatever currency it is made, and stamps the
\* authorization row with the upper-cased currency of the request.
C39_HoldIgnoresAccountCurrency ==
    [][(/\ Returned("CreateAuthAndHold")
        /\ last'.amount > 0
        /\ (last'.stan = NoStan \/ RowsWithKey(last'.card, last'.stan) = {})) =>
          LET a == CardAccount(last'.card)
          IN  /\ last'.err = ErrNone <=> accounts[a].available_balance >= last'.amount
              /\ last'.err = ErrNone =>
                    /\ accounts'[a].hold_balance = accounts[a].hold_balance + last'.amount
                    /\ Len(auths') = Len(auths) + 1
                    /\ auths'[Len(auths')].account = a
                    /\ auths'[Len(auths')].currency = ToUpper(last'.cur)
    ]_vars

\* a hold in EUR was placed on the USD account
C39_Witness ==
    /\ last.op = "CreateAuthAndHold"
    /\ last.err = ErrNone
    /\ ~last.dup
    /\ ~last.waited
    /\ last.cur = "eur"
    /\ AccountCurrency(CardAccount(last.card)) = "USD"
    /\ auths[last.auth].currency = "EUR"
    /\ auths[last.auth].account = CardAccount(last.card)
    /\ accounts[CardAccount(last.card)].hold_balance = last.amount
    /\ accounts[CardAccount(last.card)].available_balance = InitBalance - last.amount

\* SpecSweepRace: connection p1 places holds and captures them in full or
\* reverses them, waiting when the row is locked; connection p2 is the
\* sweeper; the clock advances and open holds are stamped with an expiry,
\* 0 or the latest instant.
NextSweepRace ==
    \/ \E amount \in {1, MaxAmount} : CAH_NoStan("p1", "card1", amount, "usd", "100001")
    \/ \E id \in AuthIDs, amount \in ReqAmounts :
          /\ id \in DOMAIN auths => amount \in {0, auths[id].amount}
          /\ \/ Cap_Lock("p1", id, amount, "usd")
             \/ Cap_Wait("p1", id, amount, "usd")
    \/ Cap_LockAfterWait("p1")
    \/ Cap_Apply("p1")
    \/ \E id \in AuthIDs : Rev_Lock("p1", id) \/ Rev_Wait("p1", id)
    \/ Rev_LockAfterWait("p1")
    \/ Rev_Apply("p1")
    \/ \E batch \in BatchSizes : Swp_Select("p2", batch)
    \/ Swp_Apply("p2")
    \/ Tick
    \/ \E i \in AuthIDs, t \in {0, MaxTime} : SetHoldExpiry(i, t)

SpecSweepRace == Init /\ [][NextSweepRace]_vars

\* the rows connection p has locked
LockedBy(p) ==
    IF tx[p].pc \in {"cap_apply", "rev_apply", "swp_apply"} THEN tx[p].ids ELSE {}

====
